---- MODULE Spec2Model ----
(***************************************************************************)
(* Peer message state machine of the protocol engine (src/src/network.rs)  *)
(* together with the protocol-layer validation it calls                    *)
(* (src/src/validation.rs).                                                *)
(*                                                                         *)
(* One connection is modelled: its PeerState, the last call of             *)
(* process_network_message made on it (message and collaborators), the     *)
(* value that call returned and the PeerState it started from.             *)
(*                                                                         *)
(* Data abstraction.  A Hash and a NetworkAddress are small naturals; a    *)
(* script is its length (the code only ever reads .len()); a transaction   *)
(* is the pair of its input script lengths and output script lengths; a    *)
(* block is its list of transactions.  Option<T> is a sequence of length   *)
(* zero (None) or one (Some).  Result<T> is a record tagged Ok / Err.      *)
(***************************************************************************)
EXTENDS Integers, Sequences, FiniteSets, TLC

VARIABLES
    peer_state,   \* the connection's PeerState
    pre_state,    \* PeerState the last operation started from
    call,         \* arguments of the last operation on the connection
    result,       \* Result<NetworkResponse> the last operation returned
    effects,      \* collaborator calls made by the last operation
    addr_log,     \* history: address lists of all Addr messages, in order
    shared_engine, \* the BitcoinProtocolEngine shared by concurrent callers
    tasks,        \* the concurrent callers: request, position and result of each
    steps         \* number of operations performed on the connection

vars == <<peer_state, pre_state, call, result, effects, addr_log, shared_engine, tasks, steps>>

----------------------------------------------------------------------------
(* Bounds of the exploration *)

MaxSteps == 2
MaxTasks == 2

----------------------------------------------------------------------------
(* Option and Result *)

None == <<>>
Some(x) == <<x>>
IsSome(o) == o # <<>>
Unwrap(o) == o[1]

OkR(v) == [variant |-> "Ok", value |-> v]
ErrR(e) == [variant |-> "Err", error |-> e]

----------------------------------------------------------------------------
(* Protocol limits written as literals in the handlers *)

MIN_VERSION == 70001
MAX_ADDR == 1000
MAX_INV == 50000
MAX_GETDATA == 50000
MAX_HEADERS == 2000
MAX_BLOCK_TXS == 10000

----------------------------------------------------------------------------
(* NetworkMessage: only the fields a handler reads are kept *)

Version(v, s, ua, sh) ==
    [kind |-> "Version", version |-> v, services |-> s,
     user_agent |-> ua, start_height |-> sh]
VerAck == [kind |-> "VerAck"]
Addr(addresses) == [kind |-> "Addr", addresses |-> addresses]
Inv(inventory) == [kind |-> "Inv", inventory |-> inventory]
GetData(inventory) == [kind |-> "GetData", inventory |-> inventory]
GetHeaders(locator, stop) ==
    [kind |-> "GetHeaders", block_locator_hashes |-> locator, hash_stop |-> stop]
Headers(headers) == [kind |-> "Headers", headers |-> headers]
Block(block) == [kind |-> "Block", block |-> block]
Tx(tx) == [kind |-> "Tx", tx |-> tx]
Ping(nonce) == [kind |-> "Ping", nonce |-> nonce]
Pong(nonce) == [kind |-> "Pong", nonce |-> nonce]
MemPool == [kind |-> "MemPool"]
FeeFilter(feerate) == [kind |-> "FeeFilter", feerate |-> feerate]

InventoryVector(t, h) == [inv_type |-> t, hash |-> h]

(* NetworkResponse.  Reject carries a String; format!("prefix{}", reason)  *)
(* is kept as the pair (prefix, reason), a plain reason has detail "".     *)
RespOk == [tag |-> "Ok"]
SendMessage(m) == [tag |-> "SendMessage", message |-> m]
SendMessages(ms) == [tag |-> "SendMessages", messages |-> ms]
RejectFmt(reason, detail) == [tag |-> "Reject", reason |-> reason, detail |-> detail]
Reject(reason) == RejectFmt(reason, "")

----------------------------------------------------------------------------
(* PeerState *)

PeerState_new ==
    [version |-> 0, services |-> 0, user_agent |-> "", start_height |-> 0,
     handshake_complete |-> FALSE, known_addresses |-> <<>>,
     ping_nonce |-> None, last_pong |-> None, min_fee_rate |-> None]

(* What a handler that is given the PeerState hands back: the returned     *)
(* value and the PeerState it leaves.  These handlers call no collaborator.*)
Outcome(res, ps) == [result |-> res, peer_state |-> ps]

(* The same for a handler that is not given the PeerState; protocol_checks *)
(* counts the runs of the protocol-layer validation.                       *)
Reply(res, chain_calls, consensus_calls, protocol_checks) ==
    [result |-> res, chain_calls |-> chain_calls,
     consensus_calls |-> consensus_calls, protocol_checks |-> protocol_checks]

----------------------------------------------------------------------------
(* Handlers that read or write PeerState *)

(* Variants of process_version_message with a slip: the handshake is       *)
(* completed by the Version itself; the fields are recorded before the     *)
(* version check; a Version after the handshake is rejected.               *)
process_version_message_completes(version, ps) ==
    IF version.version < MIN_VERSION
    THEN Outcome(OkR(Reject("Version too old")), ps)
    ELSE Outcome(OkR(SendMessage(VerAck)),
                 [ps EXCEPT !.version = version.version,
                            !.services = version.services,
                            !.user_agent = version.user_agent,
                            !.start_height = version.start_height,
                            !.handshake_complete = TRUE])

process_version_message_records_first(version, ps) ==
    LET recorded == [ps EXCEPT !.version = version.version,
                               !.services = version.services,
                               !.user_agent = version.user_agent,
                               !.start_height = version.start_height]
    IN  IF version.version < MIN_VERSION
        THEN Outcome(OkR(Reject("Version too old")), recorded)
        ELSE Outcome(OkR(SendMessage(VerAck)), recorded)

process_version_message_once(version, ps) ==
    IF version.version < MIN_VERSION \/ ps.handshake_complete
    THEN Outcome(OkR(Reject("Version too old")), ps)
    ELSE Outcome(OkR(SendMessage(VerAck)),
                 [ps EXCEPT !.version = version.version,
                            !.services = version.services,
                            !.user_agent = version.user_agent,
                            !.start_height = version.start_height])

process_version_message(version, ps) ==
    IF version.version < MIN_VERSION
    THEN Outcome(OkR(Reject("Version too old")), ps)
    ELSE Outcome(OkR(SendMessage(VerAck)),
                 [ps EXCEPT !.version = version.version,
                            !.services = version.services,
                            !.user_agent = version.user_agent,
                            !.start_height = version.start_height])

process_verack_message(ps) ==
    Outcome(OkR(RespOk), [ps EXCEPT !.handshake_complete = TRUE])

(* Variant with the limit off by one *)
process_addr_message_off_by_one(addr, ps) ==
    IF Len(addr.addresses) >= MAX_ADDR
    THEN Outcome(OkR(Reject("Too many addresses")), ps)
    ELSE Outcome(OkR(RespOk),
                 [ps EXCEPT !.known_addresses = @ \o addr.addresses])

process_addr_message(addr, ps) ==
    IF Len(addr.addresses) > MAX_ADDR
    THEN Outcome(OkR(Reject("Too many addresses")), ps)
    ELSE Outcome(OkR(RespOk),
                 [ps EXCEPT !.known_addresses = @ \o addr.addresses])

(* Variant that echoes the nonce of the outstanding ping when there is one *)
process_ping_message_outstanding(ping, ps) ==
    IF IsSome(ps.ping_nonce)
    THEN Outcome(OkR(SendMessage(Pong(Unwrap(ps.ping_nonce)))), ps)
    ELSE Outcome(OkR(SendMessage(Pong(ping.nonce))), ps)

(* Variant that takes the nonce received for the outstanding one *)
process_ping_message_records(ping, ps) ==
    Outcome(OkR(SendMessage(Pong(ping.nonce))),
            [ps EXCEPT !.ping_nonce = Some(ping.nonce)])

process_ping_message(ping, ps) ==
    Outcome(OkR(SendMessage(Pong(ping.nonce))), ps)

(* Variant that accepts any pong while a ping is outstanding *)
process_pong_message_any_nonce(pong, ps, now) ==
    IF IsSome(ps.ping_nonce)
    THEN Outcome(OkR(RespOk),
                 [ps EXCEPT !.ping_nonce = None, !.last_pong = Some(now)])
    ELSE Outcome(OkR(RespOk), ps)

process_pong_message(pong, ps, now) ==
    IF ps.ping_nonce = Some(pong.nonce)
    THEN Outcome(OkR(RespOk),
                 [ps EXCEPT !.ping_nonce = None, !.last_pong = Some(now)])
    ELSE Outcome(OkR(RespOk), ps)

(* Variant that keeps the first rate announced *)
process_feefilter_message_first(feefilter, ps) ==
    IF IsSome(ps.min_fee_rate)
    THEN Outcome(OkR(RespOk), ps)
    ELSE Outcome(OkR(RespOk), [ps EXCEPT !.min_fee_rate = Some(feefilter.feerate)])

process_feefilter_message(feefilter, ps) ==
    Outcome(OkR(RespOk), [ps EXCEPT !.min_fee_rate = Some(feefilter.feerate)])

----------------------------------------------------------------------------
(* ChainStateAccess collaborator.  A chain is the record of what its four  *)
(* methods answer: has is the set of hashes has_object accepts, objects    *)
(* maps a hash to the Option<ChainObject> get_object returns, headers is   *)
(* the list get_headers_for_locator returns and mempool the list           *)
(* get_mempool_transactions returns.                                       *)

ChainBlock(b) == [kind |-> "Block", block |-> b]
ChainTransaction(t) == [kind |-> "Transaction", tx |-> t]

has_object(chain, hash) == hash \in chain.has
get_object(chain, hash) == chain.objects[hash]
get_headers_for_locator(chain, locator, stop) == chain.headers
get_mempool_transactions(chain) == chain.mempool

as_block(obj) == IF obj.kind = "Block" THEN Some(obj.block) ELSE None
as_transaction(obj) == IF obj.kind = "Transaction" THEN Some(obj.tx) ELSE None

----------------------------------------------------------------------------
(* Handlers that consult ChainStateAccess *)

(* Variant that asks for the items already held *)
process_inv_message_held(inv, chain_access) ==
    IF Len(inv.inventory) > MAX_INV
    THEN Reply(OkR(Reject("Too many inventory items")), 0, 0, 0)
    ELSE IF IsSome(chain_access)
    THEN LET chain == Unwrap(chain_access)
             needed_items ==
                 SelectSeq(inv.inventory,
                           LAMBDA item : has_object(chain, item.hash))
         IN  IF needed_items # <<>>
             THEN Reply(OkR(SendMessage(GetData(needed_items))),
                        Len(inv.inventory), 0, 0)
             ELSE Reply(OkR(RespOk), Len(inv.inventory), 0, 0)
    ELSE Reply(OkR(RespOk), 0, 0, 0)

process_inv_message(inv, chain_access) ==
    IF Len(inv.inventory) > MAX_INV
    THEN Reply(OkR(Reject("Too many inventory items")), 0, 0, 0)
    ELSE IF IsSome(chain_access)
    THEN LET chain == Unwrap(chain_access)
             needed_items ==
                 SelectSeq(inv.inventory,
                           LAMBDA item : ~has_object(chain, item.hash))
         IN  IF needed_items # <<>>
             THEN Reply(OkR(SendMessage(GetData(needed_items))),
                        Len(inv.inventory), 0, 0)
             ELSE Reply(OkR(RespOk), Len(inv.inventory), 0, 0)
    ELSE Reply(OkR(RespOk), 0, 0, 0)

(* Variant of the loop body with the two type codes exchanged *)
getdata_item_responses_swapped(chain, item) ==
    LET found == get_object(chain, item.hash)
    IN  IF ~IsSome(found) THEN <<>>
        ELSE LET obj == Unwrap(found)
             IN  CASE item.inv_type = 2 ->
                        IF IsSome(as_transaction(obj))
                        THEN <<Tx(Unwrap(as_transaction(obj)))>> ELSE <<>>
                   [] item.inv_type = 1 ->
                        IF IsSome(as_block(obj))
                        THEN <<Block(Unwrap(as_block(obj)))>> ELSE <<>>
                   [] OTHER -> <<>>

(* Body of the loop of process_getdata_message: what one requested item    *)
(* pushes onto responses, as a list of zero or one message.                *)
getdata_item_responses(chain, item) ==
    LET found == get_object(chain, item.hash)
    IN  IF ~IsSome(found) THEN <<>>
        ELSE LET obj == Unwrap(found)
             IN  CASE item.inv_type = 1 ->
                        IF IsSome(as_transaction(obj))
                        THEN <<Tx(Unwrap(as_transaction(obj)))>> ELSE <<>>
                   [] item.inv_type = 2 ->
                        IF IsSome(as_block(obj))
                        THEN <<Block(Unwrap(as_block(obj)))>> ELSE <<>>
                   [] OTHER -> <<>>

process_getdata_message(getdata, chain_access) ==
    IF Len(getdata.inventory) > MAX_GETDATA
    THEN Reply(OkR(Reject("Too many getdata items")), 0, 0, 0)
    ELSE IF IsSome(chain_access)
    THEN LET chain == Unwrap(chain_access)
             emitting ==
                 SelectSeq(getdata.inventory,
                           LAMBDA item : getdata_item_responses(chain, item) # <<>>)
             responses ==
                 [i \in 1..Len(emitting) |->
                     getdata_item_responses(chain, emitting[i])[1]]
         IN  IF responses # <<>>
             THEN Reply(OkR(SendMessages(responses)), Len(getdata.inventory), 0, 0)
             ELSE Reply(OkR(RespOk), Len(getdata.inventory), 0, 0)
    ELSE Reply(OkR(RespOk), 0, 0, 0)

process_getheaders_message(getheaders, chain_access) ==
    IF IsSome(chain_access)
    THEN LET headers ==
                 get_headers_for_locator(Unwrap(chain_access),
                                         getheaders.block_locator_hashes,
                                         getheaders.hash_stop)
         IN  Reply(OkR(SendMessage(Headers(headers))), 1, 0, 0)
    ELSE Reply(OkR(Reject("Chain access not available")), 0, 0, 0)

process_headers_message(headers) ==
    IF Len(headers.headers) > MAX_HEADERS
    THEN Reply(OkR(Reject("Too many headers")), 0, 0, 0)
    ELSE Reply(OkR(RespOk), 0, 0, 0)

process_mempool_message(chain_access) ==
    IF IsSome(chain_access)
    THEN LET mempool_txs == get_mempool_transactions(Unwrap(chain_access))
             responses == [i \in 1..Len(mempool_txs) |-> Tx(mempool_txs[i])]
         IN  IF responses # <<>>
             THEN Reply(OkR(SendMessages(responses)), 1, 0, 0)
             ELSE Reply(OkR(RespOk), 1, 0, 0)
    ELSE Reply(OkR(RespOk), 0, 0, 0)

----------------------------------------------------------------------------
(* Protocol versions, validation rules and validation context              *)

ProtocolVersions == {"BitcoinV1", "Testnet3", "Regtest"}

ProtocolValidationRules_mainnet ==
    [max_block_size |-> 4000000, max_tx_size |-> 1000000, max_script_size |-> 10000,
     segwit_enabled |-> TRUE, taproot_enabled |-> TRUE, rbf_enabled |-> TRUE,
     min_fee_rate |-> 1, max_fee_rate |-> 1000000]

ProtocolValidationRules_testnet ==
    [max_block_size |-> 4000000, max_tx_size |-> 1000000, max_script_size |-> 10000,
     segwit_enabled |-> TRUE, taproot_enabled |-> TRUE, rbf_enabled |-> TRUE,
     min_fee_rate |-> 1, max_fee_rate |-> 1000000]

ProtocolValidationRules_regtest ==
    [max_block_size |-> 4000000, max_tx_size |-> 1000000, max_script_size |-> 10000,
     segwit_enabled |-> TRUE, taproot_enabled |-> TRUE, rbf_enabled |-> TRUE,
     min_fee_rate |-> 0, max_fee_rate |-> 1000000]

ProtocolValidationRules_for_protocol(version) ==
    CASE version = "BitcoinV1" -> ProtocolValidationRules_mainnet
      [] version = "Testnet3" -> ProtocolValidationRules_testnet
      [] version = "Regtest" -> ProtocolValidationRules_regtest

(* NetworkParameters without the genesis block *)
NetworkParameters_for_version(version) ==
    CASE version = "BitcoinV1" ->
            OkR([default_port |-> 8333, halving_interval |-> 210000,
                 network_name |-> "mainnet", is_testnet |-> FALSE])
      [] version = "Testnet3" ->
            OkR([default_port |-> 18333, halving_interval |-> 210000,
                 network_name |-> "testnet", is_testnet |-> TRUE])
      [] version = "Regtest" ->
            OkR([default_port |-> 18444, halving_interval |-> 150,
                 network_name |-> "regtest", is_testnet |-> TRUE])

(* The context with the segwit and taproot flags taken from the mainnet    *)
(* activation heights of the FeatureRegistry at the given height.          *)
ProtocolValidationContext_new_by_height(version, block_height) ==
    LET network_params == NetworkParameters_for_version(version)
        rules == ProtocolValidationRules_for_protocol(version)
    IN  IF network_params.variant = "Err" THEN network_params
        ELSE OkR([block_height |-> block_height,
                  network_params |-> network_params.value,
                  validation_rules |->
                      [rules EXCEPT !.segwit_enabled = block_height >= 481824,
                                    !.taproot_enabled = block_height >= 709632],
                  context_data |-> <<>>])

ProtocolValidationContext_new(version, block_height) ==
    LET network_params == NetworkParameters_for_version(version)
    IN  IF network_params.variant = "Err" THEN network_params
        ELSE OkR([block_height |-> block_height,
                  network_params |-> network_params.value,
                  validation_rules |-> ProtocolValidationRules_for_protocol(version),
                  context_data |-> <<>>])

is_feature_enabled(context, feature) ==
    CASE feature = "segwit" -> context.validation_rules.segwit_enabled
      [] feature = "taproot" -> context.validation_rules.taproot_enabled
      [] feature = "rbf" -> context.validation_rules.rbf_enabled
      [] OTHER -> FALSE

(* The engine is its protocol version; the consensus collaborator it owns  *)
(* is represented by the answer it gives to the call at hand.              *)
get_protocol_version(engine) == engine.protocol_version

----------------------------------------------------------------------------
(* u32 arithmetic.  A natural number is held as <<hi, lo>> with            *)
(* lo < 2^16, so that sizes beyond 2^32 can be told from their u32         *)
(* residues; a u32 is such a pair with hi < 2^16.                          *)

LIMB == 65536

Wide(n) == <<n \div LIMB, n % LIMB>>

WAdd(a, b) ==
    LET lo == a[2] + b[2]
    IN  <<a[1] + b[1] + (lo \div LIMB), lo % LIMB>>

WGt(a, b) == a[1] > b[1] \/ (a[1] = b[1] /\ a[2] > b[2])

(* the value a u32 addition leaves in a build without overflow checks *)
wrapping(a) == <<a[1] % LIMB, a[2]>>

(* whether the mathematical result is beyond u32::MAX *)
overflows(a) == a[1] >= LIMB

(* `len as u32` *)
as_u32(len) == wrapping(Wide(len))

Panic(message) == [variant |-> "Panic", message |-> message]

(* The outcome of a chain of u32 additions of terms that are not negative, *)
(* given their mathematical total: one of the additions overflows exactly  *)
(* when the total is beyond u32::MAX; a build with overflow checks then    *)
(* panics, a build without them is left with the total modulo 2^32.        *)
checked_u32(engine, exact) ==
    IF overflows(exact) /\ engine.overflow_checks
    THEN Panic("attempt to add with overflow")
    ELSE OkR(wrapping(exact))

Eager(f) == <<>> \o f

RECURSIVE SumRange(_, _, _)
SumRange(s, lo, hi) ==
    IF lo > hi THEN Wide(0)
    ELSE IF lo = hi THEN s[lo]
    ELSE LET mid == (lo + hi) \div 2
         IN  WAdd(SumRange(s, lo, mid), SumRange(s, mid + 1, hi))

(* the mathematical total of Iterator::sum *)
sum_u32(s) == SumRange(s, 1, Len(s))

----------------------------------------------------------------------------
(* Structural sizes, computed in u32 as the code computes them.  A script  *)
(* is its length in bytes.                                                 *)

calculate_transaction_size(engine, tx) ==
    LET input_sizes ==
            sum_u32([i \in 1..Len(tx.inputs) |->
                        WAdd(Wide(32 + 4), WAdd(as_u32(tx.inputs[i]), Wide(4)))])
        output_sizes ==
            sum_u32([i \in 1..Len(tx.outputs) |->
                        WAdd(Wide(8), as_u32(tx.outputs[i]))])
    IN  checked_u32(engine,
                    WAdd(Wide(4 + 4),
                         WAdd(input_sizes,
                              WAdd(Wide(4), WAdd(output_sizes, Wide(4))))))

(* the sum over the transaction sizes, given those sizes *)
block_size_of(engine, tx_terms) ==
    LET failed == {i \in 1..Len(tx_terms) : tx_terms[i].variant # "Ok"}
    IN  IF failed # {} THEN tx_terms[CHOOSE i \in failed : TRUE]
        ELSE checked_u32(engine,
                         WAdd(Wide(80 + 4),
                              sum_u32([i \in 1..Len(tx_terms) |-> tx_terms[i].value])))

calculate_block_size(engine, block) ==
    block_size_of(engine,
                  Eager([i \in 1..Len(block.transactions) |->
                            calculate_transaction_size(engine, block.transactions[i])]))

----------------------------------------------------------------------------
(* Protocol-layer validation *)

ConsensusError(variant, text) == [error |-> variant, text |-> text]
OkUnit == OkR("()")

Valid == [tag |-> "Valid"]
Invalid(reason) == [tag |-> "Invalid", reason |-> reason]

(* the checks of apply_transaction_protocol_validation on the size computed *)
transaction_limits(tx_size, tx, context) ==
    IF tx_size.variant # "Ok" THEN tx_size
    ELSE IF WGt(tx_size.value, Wide(context.validation_rules.max_tx_size))
    THEN ErrR(ConsensusError("TransactionValidation",
                             "Transaction size exceeds maximum"))
    ELSE IF \E i \in 1..Len(tx.inputs) :
                tx.inputs[i] > context.validation_rules.max_script_size
    THEN ErrR(ConsensusError("TransactionValidation", "Script size exceeds maximum"))
    ELSE IF \E i \in 1..Len(tx.outputs) :
                tx.outputs[i] > context.validation_rules.max_script_size
    THEN ErrR(ConsensusError("TransactionValidation", "Script size exceeds maximum"))
    ELSE OkUnit

apply_transaction_protocol_validation(engine, tx, context) ==
    transaction_limits(calculate_transaction_size(engine, tx), tx, context)

(* the loop over the transactions: the outcome of the first that fails,    *)
(* given the outcome of each                                               *)
first_failure(outcomes) ==
    LET failing == {i \in 1..Len(outcomes) : outcomes[i].variant # "Ok"}
    IN  IF failing = {} THEN OkUnit
        ELSE outcomes[CHOOSE i \in failing : \A j \in failing : i <= j]

(* the checks of apply_protocol_validation on the block size computed *)
block_limits(block_size, engine, block, context) ==
    IF block_size.variant # "Ok" THEN block_size
    ELSE IF WGt(block_size.value, Wide(context.validation_rules.max_block_size))
    THEN ErrR(ConsensusError("BlockValidation", "Block size exceeds maximum"))
    ELSE IF Len(block.transactions) > MAX_BLOCK_TXS
    THEN ErrR(ConsensusError("BlockValidation", "Too many transactions in block"))
    ELSE first_failure(Eager([i \in 1..Len(block.transactions) |->
                                 apply_transaction_protocol_validation(
                                     engine, block.transactions[i], context)]))

apply_protocol_validation(engine, block, context) ==
    block_limits(calculate_block_size(engine, block), engine, block, context)

(* consensus first, then the protocol layer: an error of either is         *)
(* propagated, otherwise the consensus result is returned                  *)
layered(consensus, protocol) ==
    IF consensus.variant # "Ok" THEN Reply(consensus, 0, 1, 0)
    ELSE IF protocol.variant # "Ok" THEN Reply(protocol, 0, 1, 1)
    ELSE Reply(OkR(consensus.value), 0, 1, 1)

(* consensus is the Result the consensus collaborator returns for this     *)
(* block (its second tuple component is dropped by the caller).            *)
validate_block_with_protocol(engine, block, utxos, height, context, consensus) ==
    layered(consensus, apply_protocol_validation(engine, block, context))

validate_transaction_with_protocol(engine, tx, context, consensus) ==
    layered(consensus, apply_transaction_protocol_validation(engine, tx, context))

----------------------------------------------------------------------------
(* Handlers that validate *)

(* the `match` on the validation result: an error is propagated, Valid is *)
(* answered Ok and Invalid(reason) a Reject that starts with the prefix    *)
match_validation(validated, prefix) ==
    IF validated.result.variant # "Ok" THEN validated
    ELSE IF validated.result.value.tag = "Valid"
    THEN [validated EXCEPT !.result = OkR(RespOk)]
    ELSE [validated EXCEPT !.result =
             OkR(RejectFmt(prefix, validated.result.value.reason))]

(* The block handler with the transaction-count limit left to the          *)
(* protocol-layer validation.                                              *)
process_block_message_validates_first(engine, block, utxo_set, height, consensus) ==
    IF IsSome(utxo_set) /\ IsSome(height)
    THEN LET context ==
                 ProtocolValidationContext_new(get_protocol_version(engine),
                                               Unwrap(height))
             validated ==
                 validate_block_with_protocol(
                     engine, block, Unwrap(utxo_set), Unwrap(height),
                     context.value, consensus)
         IN  match_validation(validated, "Invalid block: ")
    ELSE Reply(OkR(Reject("Missing validation context")), 0, 0, 0)

(* The block handler defaulting a missing height to 0, as the transaction  *)
(* handler does.                                                           *)
process_block_message_height_default(engine, block, utxo_set, height, consensus) ==
    IF Len(block.transactions) > MAX_BLOCK_TXS
    THEN Reply(OkR(Reject("Too many transactions")), 0, 0, 0)
    ELSE IF IsSome(utxo_set)
    THEN LET h == IF IsSome(height) THEN Unwrap(height) ELSE 0
             context ==
                 ProtocolValidationContext_new(get_protocol_version(engine), h)
             validated ==
                 validate_block_with_protocol(
                     engine, block, Unwrap(utxo_set), h, context.value, consensus)
         IN  match_validation(validated, "Invalid block: ")
    ELSE Reply(OkR(Reject("Missing validation context")), 0, 0, 0)

process_block_message(engine, block, utxo_set, height, consensus) ==
    IF Len(block.transactions) > MAX_BLOCK_TXS
    THEN Reply(OkR(Reject("Too many transactions")), 0, 0, 0)
    ELSE IF IsSome(utxo_set) /\ IsSome(height)
    THEN LET context ==
                 ProtocolValidationContext_new(get_protocol_version(engine),
                                               Unwrap(height))
         IN  IF context.variant = "Err" THEN Reply(context, 0, 0, 0)
             ELSE LET validated ==
                          validate_block_with_protocol(
                              engine, block, Unwrap(utxo_set), Unwrap(height),
                              context.value, consensus)
                  IN  match_validation(validated, "Invalid block: ")
    ELSE Reply(OkR(Reject("Missing validation context")), 0, 0, 0)

process_tx_message(engine, tx, height, consensus) ==
    LET context ==
            ProtocolValidationContext_new(get_protocol_version(engine),
                                          IF IsSome(height) THEN Unwrap(height) ELSE 0)
    IN  IF context.variant = "Err" THEN Reply(context, 0, 0, 0)
        ELSE LET validated ==
                     validate_transaction_with_protocol(engine, tx, context.value,
                                                        consensus)
             IN  match_validation(validated, "Invalid transaction: ")

----------------------------------------------------------------------------
(* process_network_message: the dispatch on the message kind.  consensus   *)
(* is the answer of the consensus collaborator and now the reading of the  *)
(* system clock, should the handler ask for them.                          *)

Stateful(outcome) ==
    [result |-> outcome.result, peer_state |-> outcome.peer_state,
     chain_calls |-> 0, consensus_calls |-> 0, protocol_checks |-> 0]

Stateless(reply, ps) ==
    [result |-> reply.result, peer_state |-> ps,
     chain_calls |-> reply.chain_calls, consensus_calls |-> reply.consensus_calls,
     protocol_checks |-> reply.protocol_checks]

(* Variant that refuses Block and Tx until the handshake is complete *)
process_network_message_gated(engine, message, ps, chain_access, utxo_set, height, consensus, now) ==
    CASE message.kind = "Version" -> Stateful(process_version_message(message, ps))
      [] message.kind = "VerAck" -> Stateful(process_verack_message(ps))
      [] message.kind = "Addr" -> Stateful(process_addr_message(message, ps))
      [] message.kind = "Inv" ->
            Stateless(process_inv_message(message, chain_access), ps)
      [] message.kind = "GetData" ->
            Stateless(process_getdata_message(message, chain_access), ps)
      [] message.kind = "GetHeaders" ->
            Stateless(process_getheaders_message(message, chain_access), ps)
      [] message.kind = "Headers" -> Stateless(process_headers_message(message), ps)
      [] message.kind = "Block" ->
            IF ~ps.handshake_complete
            THEN Stateless(Reply(OkR(Reject("Handshake not complete")), 0, 0, 0), ps)
            ELSE Stateless(process_block_message(engine, message.block, utxo_set,
                                                 height, consensus), ps)
      [] message.kind = "Tx" ->
            IF ~ps.handshake_complete
            THEN Stateless(Reply(OkR(Reject("Handshake not complete")), 0, 0, 0), ps)
            ELSE Stateless(process_tx_message(engine, message.tx, height, consensus), ps)
      [] message.kind = "Ping" -> Stateful(process_ping_message(message, ps))
      [] message.kind = "Pong" -> Stateful(process_pong_message(message, ps, now))
      [] message.kind = "MemPool" -> Stateless(process_mempool_message(chain_access), ps)
      [] message.kind = "FeeFilter" ->
            Stateful(process_feefilter_message(message, ps))

process_network_message(engine, message, ps, chain_access, utxo_set, height, consensus, now) ==
    CASE message.kind = "Version" -> Stateful(process_version_message(message, ps))
      [] message.kind = "VerAck" -> Stateful(process_verack_message(ps))
      [] message.kind = "Addr" -> Stateful(process_addr_message(message, ps))
      [] message.kind = "Inv" ->
            Stateless(process_inv_message(message, chain_access), ps)
      [] message.kind = "GetData" ->
            Stateless(process_getdata_message(message, chain_access), ps)
      [] message.kind = "GetHeaders" ->
            Stateless(process_getheaders_message(message, chain_access), ps)
      [] message.kind = "Headers" -> Stateless(process_headers_message(message), ps)
      [] message.kind = "Block" ->
            Stateless(process_block_message(engine, message.block, utxo_set,
                                            height, consensus), ps)
      [] message.kind = "Tx" ->
            Stateless(process_tx_message(engine, message.tx, height, consensus), ps)
      [] message.kind = "Ping" -> Stateful(process_ping_message(message, ps))
      [] message.kind = "Pong" -> Stateful(process_pong_message(message, ps, now))
      [] message.kind = "MemPool" -> Stateless(process_mempool_message(chain_access), ps)
      [] message.kind = "FeeFilter" ->
            Stateful(process_feefilter_message(message, ps))

----------------------------------------------------------------------------
(* Inputs.  Long lists are a short head followed by a filler, so that the  *)
(* limits of the handlers are met exactly and exceeded by one.             *)

Pad(head, n, filler) ==
    head \o [i \in 1..(n - Len(head)) |-> filler]

(* overflow_checks is the build the engine runs in: TRUE for a build with   *)
(* overflow checks (debug), FALSE for one without (release).               *)
EngineBuilt(version, overflow_checks) ==
    [protocol_version |-> version,
     network_params |-> NetworkParameters_for_version(version).value,
     overflow_checks |-> overflow_checks]

(* BitcoinProtocolEngine::new in a build with or without overflow checks *)
BitcoinProtocolEngine_new(version, overflow_checks) ==
    EngineBuilt(version, overflow_checks)

Engines ==
    {BitcoinProtocolEngine_new(v, k) : v \in ProtocolVersions, k \in BOOLEAN}

(* Transactions and blocks *)
SmallTx == [inputs |-> <<2>>, outputs |-> <<23>>]
EmptyTx == [inputs |-> <<>>, outputs |-> <<>>]
LimitScriptTx == [inputs |-> <<10000>>, outputs |-> <<10000>>]
LongScriptTx == [inputs |-> <<10001>>, outputs |-> <<23>>]
LongTx == [inputs |-> Pad(<<>>, 100, 10000), outputs |-> <<23>>]
NearLimitTx == [inputs |-> Pad(<<>>, 99, 10000), outputs |-> <<23>>]

SmallBlock == [transactions |-> <<SmallTx>>]
LongScriptBlock == [transactions |-> <<SmallTx, LongScriptTx>>]
LongBlock == [transactions |-> Pad(<<>>, 5, NearLimitTx)]
FullTxBlock == [transactions |-> Pad(<<>>, MAX_BLOCK_TXS, EmptyTx)]
ManyTxBlock == [transactions |-> Pad(<<>>, MAX_BLOCK_TXS + 1, EmptyTx)]

(* Chain states offered by the node layer *)
Hashes == 0..3
ChainA ==
    [has |-> {0},
     objects |-> [h \in Hashes |-> IF h = 0 THEN Some(ChainBlock(SmallBlock)) ELSE None],
     headers |-> <<>>,
     mempool |-> <<>>]
ChainB ==
    [has |-> {0, 1, 2},
     objects |-> [h \in Hashes |->
                     CASE h = 0 -> Some(ChainBlock(SmallBlock))
                       [] h = 1 -> Some(ChainTransaction(SmallTx))
                       [] h = 2 -> Some(ChainBlock(LongScriptBlock))
                       [] OTHER -> None],
     headers |-> <<7, 8>>,
     mempool |-> <<SmallTx, EmptyTx>>]
ChainOptions == {None, Some(ChainA), Some(ChainB)}

EmptyUtxoSet == {}
Clock == {10, 20}
Nonces == {1, 2}

ConsensusValid == OkR(Valid)
ConsensusInvalid == OkR(Invalid("bad-txns"))
ConsensusFailure == ErrR(ConsensusError("UtxoNotFound", "missing input"))
ConsensusAnswers == {ConsensusValid, ConsensusInvalid, ConsensusFailure}

Call(engine, message, chain_access, utxo_set, height, consensus, now) ==
    [op |-> "process_network_message", engine |-> engine, message |-> message,
     chain_access |-> chain_access, utxo_set |-> utxo_set, height |-> height,
     consensus |-> consensus, now |-> now]

(* A call whose handler is given nothing but the message and the PeerState *)
Plain(message, build) ==
    Call(BitcoinProtocolEngine_new("BitcoinV1", build), message, None, None, None,
         ConsensusValid, 10)

(* A call whose handler is given the message and the chain access          *)
WithChain(message, chain_access, build) ==
    Call(BitcoinProtocolEngine_new("BitcoinV1", build), message, chain_access, None,
         None, ConsensusValid, 10)

VersionCalls ==
    {Plain(m, k) : m \in {Version(70000, 1, "old", 10),
                          Version(70001, 1, "a", 5),
                          Version(70002, 9, "b", -1)},
                   k \in BOOLEAN}

VerAckCalls == {Plain(VerAck, k) : k \in BOOLEAN}

AddrCalls ==
    {Plain(Addr(a), k) : a \in {<<1, 2>>,
                                Pad(<<2, 1>>, MAX_ADDR, 0),
                                Pad(<<1>>, MAX_ADDR + 1, 0)},
                         k \in BOOLEAN}

ShortInventories ==
    {<<>>,
     <<InventoryVector(1, 1)>>,
     <<InventoryVector(2, 2), InventoryVector(1, 1)>>,
     <<InventoryVector(1, 3), InventoryVector(2, 0), InventoryVector(1, 1)>>}

(* the filler is an object both chains hold *)
LimitInventory ==
    Pad(<<InventoryVector(1, 3), InventoryVector(2, 1)>>, MAX_INV, InventoryVector(2, 0))
LongInventory ==
    Pad(<<InventoryVector(1, 3)>>, MAX_INV + 1, InventoryVector(2, 0))

InvCalls ==
    {WithChain(Inv(i), c, k) : i \in ShortInventories, c \in ChainOptions,
                               k \in BOOLEAN}
    \cup {WithChain(Inv(LimitInventory), c, k) : c \in {None, Some(ChainA)},
                                                k \in BOOLEAN}
    \cup {WithChain(Inv(LongInventory), Some(ChainA), k) : k \in BOOLEAN}

ShortRequests ==
    {<<>>,
     <<InventoryVector(1, 1)>>,
     <<InventoryVector(1, 0)>>,
     <<InventoryVector(2, 0), InventoryVector(1, 1), InventoryVector(1, 3)>>,
     <<InventoryVector(3, 1), InventoryVector(2, 2), InventoryVector(2, 1)>>}

(* the filler has a type code no object is sent for *)
LimitRequest ==
    Pad(<<InventoryVector(1, 1), InventoryVector(2, 0)>>, MAX_GETDATA,
        InventoryVector(3, 0))
LongRequest ==
    Pad(<<InventoryVector(1, 1)>>, MAX_GETDATA + 1, InventoryVector(3, 0))

GetDataCalls ==
    {WithChain(GetData(i), c, k) : i \in ShortRequests, c \in ChainOptions,
                                   k \in BOOLEAN}
    \cup {WithChain(GetData(i), Some(ChainB), k) : i \in {LimitRequest, LongRequest},
                                                  k \in BOOLEAN}

GetHeadersCalls ==
    {WithChain(GetHeaders(<<0>>, 3), c, k) : c \in ChainOptions, k \in BOOLEAN}

HeadersCalls ==
    {Plain(Headers(h), k) : h \in {<<7>>,
                                   Pad(<<>>, MAX_HEADERS, 7),
                                   Pad(<<>>, MAX_HEADERS + 1, 7)},
                            k \in BOOLEAN}

BlockCalls ==
    {Call(e, Block(b), None, Some(EmptyUtxoSet), Some(5), c, 10) :
        e \in Engines, b \in {SmallBlock, LongScriptBlock}, c \in ConsensusAnswers}
    \cup {Call(BitcoinProtocolEngine_new("BitcoinV1", k), Block(b), None, ctx[1],
               ctx[2], c, 10) :
        k \in BOOLEAN, b \in {SmallBlock, LongScriptBlock},
        ctx \in {<<None, None>>, <<Some(EmptyUtxoSet), None>>, <<None, Some(5)>>},
        c \in {ConsensusValid, ConsensusInvalid}}
    \cup {Call(BitcoinProtocolEngine_new("BitcoinV1", k), Block(b), None, ctx[1],
               ctx[2], c, 10) :
        k \in BOOLEAN, b \in {LongBlock, ManyTxBlock},
        ctx \in {<<None, None>>, <<Some(EmptyUtxoSet), Some(5)>>},
        c \in {ConsensusValid, ConsensusInvalid}}
    \cup {Call(BitcoinProtocolEngine_new("BitcoinV1", k), Block(ManyTxBlock), None,
               ctx[1], ctx[2], c, 10) :
        k \in BOOLEAN, ctx \in {<<Some(EmptyUtxoSet), None>>, <<None, Some(5)>>},
        c \in {ConsensusValid}}
    \cup {Call(BitcoinProtocolEngine_new("BitcoinV1", k), Block(ManyTxBlock), None,
               Some(EmptyUtxoSet), Some(5), ConsensusFailure, 10) : k \in BOOLEAN}
    \cup {Call(BitcoinProtocolEngine_new("BitcoinV1", k), Block(FullTxBlock), None,
               ctx[1], ctx[2], ConsensusValid, 10) :
        k \in BOOLEAN,
        ctx \in {<<None, None>>, <<Some(EmptyUtxoSet), None>>, <<None, Some(5)>>}}

TxCalls ==
    {Call(e, Tx(t), None, None, h, c, 10) :
        e \in Engines, t \in {SmallTx, LongScriptTx}, h \in {None, Some(5)},
        c \in ConsensusAnswers}
    \cup {Call(BitcoinProtocolEngine_new("BitcoinV1", k), Tx(t), None, None, Some(5),
               c, 10) :
        k \in BOOLEAN, t \in {LimitScriptTx, LongTx}, c \in {ConsensusValid, ConsensusInvalid}}

PingCalls ==
    {Call(BitcoinProtocolEngine_new("BitcoinV1", k), Ping(n), c, ctx[1], ctx[2],
          ConsensusValid, 10) :
        k \in BOOLEAN, n \in Nonces, c \in {None, Some(ChainB)},
        ctx \in {<<None, None>>, <<Some(EmptyUtxoSet), Some(5)>>}}

PongCalls ==
    {Call(BitcoinProtocolEngine_new("BitcoinV1", k), Pong(n), None, None, None,
          ConsensusValid, t) :
        k \in BOOLEAN, n \in Nonces, t \in Clock}

MemPoolCalls == {WithChain(MemPool, c, k) : c \in ChainOptions, k \in BOOLEAN}

FeeFilterCalls == {Plain(FeeFilter(r), k) : r \in {1, 1000}, k \in BOOLEAN}

----------------------------------------------------------------------------
(* The connection *)

NoCall(engine) ==
    [op |-> "new", engine |-> engine, message |-> [kind |-> "None"],
     chain_access |-> None, utxo_set |-> None, height |-> None,
     consensus |-> ConsensusValid, now |-> 10]

NoEffects == [chain_calls |-> 0, consensus_calls |-> 0, protocol_checks |-> 0]

(* The engine a process holds: one build for the whole run *)
BuiltEngines == {BitcoinProtocolEngine_new("BitcoinV1", k) : k \in BOOLEAN}

Init ==
    /\ peer_state = PeerState_new
    /\ pre_state = PeerState_new
    /\ shared_engine \in BuiltEngines
    /\ call = NoCall(shared_engine)
    /\ result = OkR(RespOk)
    /\ effects = NoEffects
    /\ addr_log = <<>>
    /\ tasks = <<>>
    /\ steps = 0

Respond(c, ps) ==
    process_network_message(c.engine, c.message, ps, c.chain_access,
                            c.utxo_set, c.height, c.consensus, c.now)

(* One call of process_network_message on the connection *)
Step(c, out) ==
    /\ steps < MaxSteps
    /\ peer_state' = out.peer_state
    /\ result' = out.result
    /\ effects' = [chain_calls |-> out.chain_calls,
                   consensus_calls |-> out.consensus_calls,
                   protocol_checks |-> out.protocol_checks]
    /\ pre_state' = peer_state
    /\ call' = c
    /\ addr_log' = IF c.message.kind = "Addr"
                   THEN Append(addr_log, c.message.addresses) ELSE addr_log
    /\ UNCHANGED <<shared_engine, tasks>>
    /\ steps' = steps + 1

(* the engine passed is of the build of the process *)
Deliver(c) ==
    /\ c.engine.overflow_checks = shared_engine.overflow_checks
    /\ Step(c, Respond(c, peer_state))

RecvVersion ==
    \E c \in VersionCalls :
        /\ c.message.kind = "Version"
        /\ Deliver(c)
RecvVerAck ==
    \E c \in VerAckCalls :
        /\ c.message.kind = "VerAck"
        /\ Deliver(c)
RecvAddr ==
    \E c \in AddrCalls :
        /\ c.message.kind = "Addr"
        /\ Deliver(c)
RecvInv ==
    \E c \in InvCalls :
        /\ c.message.kind = "Inv"
        /\ Deliver(c)
RecvGetData ==
    \E c \in GetDataCalls :
        /\ c.message.kind = "GetData"
        /\ Deliver(c)
RecvGetHeaders ==
    \E c \in GetHeadersCalls :
        /\ c.message.kind = "GetHeaders"
        /\ Deliver(c)
RecvHeaders ==
    \E c \in HeadersCalls :
        /\ c.message.kind = "Headers"
        /\ Deliver(c)
RecvBlock ==
    \E c \in BlockCalls :
        /\ c.message.kind = "Block"
        /\ Deliver(c)
RecvTx ==
    \E c \in TxCalls :
        /\ c.message.kind = "Tx"
        /\ Deliver(c)
RecvPing ==
    \E c \in PingCalls :
        /\ c.message.kind = "Ping"
        /\ Deliver(c)
RecvPong ==
    \E c \in PongCalls :
        /\ c.message.kind = "Pong"
        /\ Deliver(c)
RecvMemPool ==
    \E c \in MemPoolCalls :
        /\ c.message.kind = "MemPool"
        /\ Deliver(c)
RecvFeeFilter ==
    \E c \in FeeFilterCalls :
        /\ c.message.kind = "FeeFilter"
        /\ Deliver(c)

Next ==
    \/ RecvVersion
    \/ RecvVerAck
    \/ RecvAddr
    \/ RecvInv
    \/ RecvGetData
    \/ RecvGetHeaders
    \/ RecvHeaders
    \/ RecvBlock
    \/ RecvTx
    \/ RecvPing
    \/ RecvPong
    \/ RecvMemPool
    \/ RecvFeeFilter

Spec == Init /\ [][Next]_vars

(* The owner of the connection (the node's connection manager) records the *)
(* nonce of a ping it has sent in the public field ping_nonce.             *)
SetPingNonce ==
    /\ steps < MaxSteps
    /\ \E n \in Nonces :
          /\ peer_state' = [peer_state EXCEPT !.ping_nonce = Some(n)]
          /\ call' = [NoCall(shared_engine) EXCEPT !.op = "set_ping_nonce",
                                    !.message = [kind |-> "None", nonce |-> n]]
    /\ pre_state' = peer_state
    /\ result' = OkR(RespOk)
    /\ effects' = NoEffects
    /\ addr_log' = addr_log
    /\ UNCHANGED <<shared_engine, tasks>>
    /\ steps' = steps + 1

NextOwner == Next \/ SetPingNonce

SpecOwner == Init /\ [][NextOwner]_vars

----------------------------------------------------------------------------
(* Properties of the message handlers.  They are stated on the record of   *)
(* the last operation: call, pre_state, result, effects and peer_state.    *)

Received(kind) ==
    call.op = "process_network_message" /\ call.message.kind = kind

IsReject(res) == res.variant = "Ok" /\ res.value.tag = "Reject"

RulesOf(c) == ProtocolValidationRules_for_protocol(c.engine.protocol_version)

(* Structural size over the integers (as a <<hi, lo>> pair): 16 bytes,     *)
(* 40 + script per input, 8 + script per output; a block adds its 80-byte  *)
(* header and 4-byte count.                                                *)
TxBytes(tx) ==
    WAdd(Wide(16),
         WAdd(SumRange([i \in 1..Len(tx.inputs) |-> WAdd(Wide(40), Wide(tx.inputs[i]))],
                       1, Len(tx.inputs)),
              SumRange([i \in 1..Len(tx.outputs) |-> WAdd(Wide(8), Wide(tx.outputs[i]))],
                       1, Len(tx.outputs))))

BlockBytes(block) ==
    WAdd(Wide(84),
         SumRange([i \in 1..Len(block.transactions) |-> TxBytes(block.transactions[i])],
                  1, Len(block.transactions)))

TxOverLimit(tx, rules) ==
    \/ WGt(TxBytes(tx), Wide(rules.max_tx_size))
    \/ \E i \in 1..Len(tx.inputs) : tx.inputs[i] > rules.max_script_size
    \/ \E i \in 1..Len(tx.outputs) : tx.outputs[i] > rules.max_script_size

BlockOverLimit(block, rules) ==
    \/ WGt(BlockBytes(block), Wide(rules.max_block_size))
    \/ \E i \in 1..Len(block.transactions) : TxOverLimit(block.transactions[i], rules)

(* C1: a Block or Tx message whose block or transaction exceeds            *)
(* max_block_size, max_tx_size or max_script_size is answered with a       *)
(* Reject response value, never with a propagated error.  Stated for a     *)
(* consensus collaborator that itself returns no error.                    *)
C1_PolicyViolationIsRejected ==
    /\ (/\ Received("Tx")
        /\ call.consensus.variant = "Ok"
        /\ TxOverLimit(call.message.tx, RulesOf(call)))
       => IsReject(result)
    /\ (/\ Received("Block")
        /\ call.consensus.variant = "Ok"
        /\ BlockOverLimit(call.message.block, RulesOf(call)))
       => IsReject(result)

(* C2: handshake_complete changes only in a step that processes a VerAck,  *)
(* and that step sets it to true.                                          *)
C2_HandshakeOnlyByVerAck ==
    peer_state.handshake_complete # pre_state.handshake_complete
        => Received("VerAck") /\ peer_state.handshake_complete = TRUE

C2_Witness ==
    /\ Received("VerAck")
    /\ pre_state.handshake_complete = FALSE
    /\ peer_state.handshake_complete = TRUE

(* C3: a Version message with version below 70001 is answered Reject and   *)
(* leaves every field of PeerState as it was.                              *)
C3_OldVersionRejected ==
    (Received("Version") /\ call.message.version < 70001)
        => /\ result = OkR(Reject("Version too old"))
           /\ peer_state = pre_state

C3_Witness ==
    /\ Received("Version")
    /\ call.message.version < 70001
    /\ pre_state.version >= 70001
    /\ pre_state.user_agent # call.message.user_agent
    /\ IsReject(result)

(* C4: a Version message with version 70001 or more records version,       *)
(* services, user_agent and start_height, is answered SendMessage(VerAck)  *)
(* and leaves handshake_complete as it was, also after the handshake.      *)
C4_VersionRecorded ==
    (Received("Version") /\ call.message.version >= 70001)
        => /\ peer_state.version = call.message.version
           /\ peer_state.services = call.message.services
           /\ peer_state.user_agent = call.message.user_agent
           /\ peer_state.start_height = call.message.start_height
           /\ result = OkR(SendMessage(VerAck))
           /\ peer_state.handshake_complete = pre_state.handshake_complete

C4_Witness ==
    /\ Received("Version")
    /\ call.message.version >= 70001
    /\ pre_state.handshake_complete = TRUE
    /\ peer_state.version = call.message.version
    /\ peer_state.handshake_complete = TRUE

(* C5: for every message other than Version and VerAck, the response, the  *)
(* collaborator calls and the update of PeerState are the same whether     *)
(* handshake_complete is true or false in the PeerState it is processed on.*)
C5_NoHandshakeGating ==
    (call.op = "process_network_message"
        /\ call.message.kind \notin {"Version", "VerAck"})
        => LET done == Respond(call, [pre_state EXCEPT !.handshake_complete = TRUE])
               open == Respond(call, [pre_state EXCEPT !.handshake_complete = FALSE])
               here == IF pre_state.handshake_complete THEN done ELSE open
           IN  /\ done.result = open.result
               /\ done.chain_calls = open.chain_calls
               /\ done.consensus_calls = open.consensus_calls
               /\ done.protocol_checks = open.protocol_checks
               /\ done.peer_state = [open.peer_state EXCEPT !.handshake_complete = TRUE]
               /\ open.peer_state.handshake_complete = FALSE
               /\ result = here.result
               /\ peer_state = here.peer_state

C5_Witness ==
    /\ Received("Block")
    /\ pre_state.handshake_complete = FALSE
    /\ pre_state.version = 0
    /\ effects.consensus_calls = 1
    /\ result = OkR(RespOk)

(* C6: known_addresses is the concatenation, in arrival order, of the      *)
(* address lists of the Addr messages that carried at most 1000 addresses; *)
(* such a message is answered Ok, a longer one Reject("Too many            *)
(* addresses") and it leaves known_addresses unchanged.                    *)
RECURSIVE AcceptedAddresses(_)
AcceptedAddresses(log) ==
    IF log = <<>> THEN <<>>
    ELSE (IF Len(Head(log)) <= 1000 THEN Head(log) ELSE <<>>)
         \o AcceptedAddresses(Tail(log))

C6_KnownAddresses ==
    /\ peer_state.known_addresses = AcceptedAddresses(addr_log)
    /\ Received("Addr")
        => IF Len(call.message.addresses) <= 1000
           THEN result = OkR(RespOk)
           ELSE /\ result = OkR(Reject("Too many addresses"))
                /\ peer_state.known_addresses = pre_state.known_addresses

C6_Witness ==
    /\ Len(addr_log) = 2
    /\ Len(addr_log[1]) = 1000
    /\ Len(addr_log[2]) = 2
    /\ peer_state.known_addresses = addr_log[1] \o addr_log[2]
    /\ Len(peer_state.known_addresses) = 1002

(* The k-th smallest member of a finite set of positions *)
KthOf(positions, k) ==
    CHOOSE i \in positions : Cardinality({j \in positions : j < i}) = k - 1

(* The items of a list at the given positions, in list order *)
ItemsAt(list, positions) ==
    [k \in 1..Cardinality(positions) |-> list[KthOf(positions, k)]]

(* C7: with a ChainStateAccess present, an Inv of at most 50000 items is   *)
(* answered by one SendMessage(GetData) listing exactly the items for      *)
(* which has_object is false, in their order, or by Ok when there is none; *)
(* a longer Inv is answered Reject and ChainStateAccess is not queried.    *)
C7_InvRequestsUnseen ==
    (Received("Inv") /\ IsSome(call.chain_access))
        => LET inventory == call.message.inventory
               chain == Unwrap(call.chain_access)
               unseen == {i \in 1..Len(inventory) : inventory[i].hash \notin chain.has}
           IN  IF Len(inventory) <= 50000
               THEN IF unseen # {}
                    THEN result = OkR(SendMessage(GetData(ItemsAt(inventory, unseen))))
                    ELSE result = OkR(RespOk)
               ELSE IsReject(result) /\ effects.chain_calls = 0

C7_Witness ==
    /\ Received("Inv")
    /\ IsSome(call.chain_access)
    /\ Len(call.message.inventory) = 3
    /\ result.value.tag = "SendMessage"
    /\ Len(result.value.message.inventory) = 2
    /\ result.value.message.inventory[1] = call.message.inventory[1]
    /\ result.value.message.inventory[2] = call.message.inventory[3]

(* C8 as claimed: with a ChainStateAccess present, a GetData of at most    *)
(* 50000 items is answered with one message per requested item that is     *)
(* resolved and has type code 1 or 2, a Tx for 1 and a Block for 2, in     *)
(* request order, and with Ok when there is no such item.                  *)
C8_OnePerResolvedItem ==
    (Received("GetData") /\ IsSome(call.chain_access)
        /\ Len(call.message.inventory) <= 50000)
        => LET inventory == call.message.inventory
               chain == Unwrap(call.chain_access)
               resolved == {i \in 1..Len(inventory) :
                               /\ inventory[i].inv_type \in {1, 2}
                               /\ IsSome(chain.objects[inventory[i].hash])}
           IN  IF resolved = {} THEN result = OkR(RespOk)
               ELSE /\ result.variant = "Ok"
                    /\ result.value.tag = "SendMessages"
                    /\ Len(result.value.messages) = Cardinality(resolved)
                    /\ \A k \in 1..Cardinality(resolved) :
                          result.value.messages[k].kind =
                              IF inventory[KthOf(resolved, k)].inv_type = 1
                              THEN "Tx" ELSE "Block"

(* C8 as amended: one message per requested item whose hash resolves to an *)
(* object of the kind its type code names (a transaction for 1, a block    *)
(* for 2), carrying that object, in request order; every other item is     *)
(* skipped without a Reject, and the response is Ok when nothing is sent.  *)
C8_OnePerMatchingItem ==
    (Received("GetData") /\ IsSome(call.chain_access)
        /\ Len(call.message.inventory) <= 50000)
        => LET inventory == call.message.inventory
               chain == Unwrap(call.chain_access)
               wanted(i) == IF inventory[i].inv_type = 1 THEN "Transaction"
                            ELSE IF inventory[i].inv_type = 2 THEN "Block"
                            ELSE "nothing that is stored"
               matching == {i \in 1..Len(inventory) :
                               /\ IsSome(chain.objects[inventory[i].hash])
                               /\ chain.objects[inventory[i].hash][1].kind = wanted(i)}
               sent(i) == LET obj == chain.objects[inventory[i].hash][1]
                          IN  IF obj.kind = "Transaction" THEN Tx(obj.tx)
                              ELSE Block(obj.block)
           IN  IF matching = {} THEN result = OkR(RespOk)
               ELSE result = OkR(SendMessages(
                        [k \in 1..Cardinality(matching) |-> sent(KthOf(matching, k))]))

C8_Witness ==
    /\ Received("GetData")
    /\ IsSome(call.chain_access)
    /\ Len(call.message.inventory) = 3
    /\ result.value.tag = "SendMessages"
    /\ Len(result.value.messages) = 1
    /\ \E i \in 1..3 :
          /\ call.message.inventory[i].inv_type = 2
          /\ IsSome(Unwrap(call.chain_access).objects[call.message.inventory[i].hash])
          /\ Unwrap(call.chain_access).objects[call.message.inventory[i].hash][1].kind
                = "Transaction"

(* C9: a Pong is always answered Ok; when its nonce is the outstanding     *)
(* ping_nonce, ping_nonce becomes None and last_pong the current time,     *)
(* otherwise PeerState is left unchanged.                                  *)
C9_Pong ==
    Received("Pong")
        => /\ result = OkR(RespOk)
           /\ IF pre_state.ping_nonce = Some(call.message.nonce)
              THEN peer_state = [pre_state EXCEPT !.ping_nonce = None,
                                                  !.last_pong = Some(call.now)]
              ELSE peer_state = pre_state

C9_Witness ==
    /\ Received("Pong")
    /\ pre_state.ping_nonce = Some(call.message.nonce)
    /\ peer_state.ping_nonce = None
    /\ peer_state.last_pong = Some(call.now)

(* C10: a Ping with nonce n is answered SendMessage(Pong{nonce = n})       *)
(* whatever the handshake state, the outstanding ping_nonce and the        *)
(* collaborators supplied.                                                 *)
C10_PingEchoed ==
    Received("Ping") => result = OkR(SendMessage(Pong(call.message.nonce)))

C10_Witness ==
    /\ Received("Ping")
    /\ IsSome(pre_state.ping_nonce)
    /\ Unwrap(pre_state.ping_nonce) # call.message.nonce
    /\ pre_state.handshake_complete = FALSE
    /\ IsSome(call.chain_access)
    /\ result = OkR(SendMessage(Pong(call.message.nonce)))

(* C11: a Block message with more than 10000 transactions is answered      *)
(* Reject("Too many transactions") whatever the consensus engine would     *)
(* answer and whether or not a UTXO set and a height are supplied; neither *)
(* the consensus engine nor the protocol-layer validation is run, and the  *)
(* PeerState is left as it was.                                            *)
C11_TooManyTransactions ==
    (Received("Block") /\ Len(call.message.block.transactions) > MAX_BLOCK_TXS)
        => /\ result = OkR(Reject("Too many transactions"))
           /\ effects.consensus_calls = 0
           /\ effects.protocol_checks = 0
           /\ peer_state = pre_state

C11_Witness ==
    /\ Received("Block")
    /\ Len(call.message.block.transactions) = MAX_BLOCK_TXS + 1
    /\ IsSome(call.utxo_set) /\ IsSome(call.height)
    /\ call.consensus = ConsensusValid
    /\ result = OkR(Reject("Too many transactions"))

(* C12: a Block message with at most 10000 transactions that comes without *)
(* a UTXO set or without a height is answered with the Reject that names   *)
(* the missing validation context; neither the consensus engine nor the    *)
(* protocol-layer validation is run.                                       *)
C12_MissingValidationContext ==
    (/\ Received("Block")
     /\ Len(call.message.block.transactions) <= MAX_BLOCK_TXS
     /\ (~IsSome(call.utxo_set) \/ ~IsSome(call.height)))
        => /\ result = OkR(Reject("Missing validation context"))
           /\ effects.consensus_calls = 0
           /\ effects.protocol_checks = 0
           /\ peer_state = pre_state

C12_Witness ==
    /\ Received("Block")
    /\ Len(call.message.block.transactions) <= MAX_BLOCK_TXS
    /\ IsSome(call.utxo_set) /\ ~IsSome(call.height)
    /\ result = OkR(Reject("Missing validation context"))

(* C27: in every PeerState reached from PeerState::new() by calls of       *)
(* process_network_message, handshake_complete implies that a Version was  *)
(* accepted before: version is at least 70001.                             *)
C27_HandshakeAfterVersion ==
    peer_state.handshake_complete => peer_state.version >= MIN_VERSION

(* The version recorded is that of an accepted Version or still the 0 of   *)
(* PeerState::new().                                                       *)
VersionRecordedOrUnset ==
    peer_state.version = 0 \/ peer_state.version >= MIN_VERSION

(* A VerAck after an accepted Version leaves the handshake complete with   *)
(* the version recorded.                                                   *)
HandshakeInOrder ==
    /\ Received("VerAck")
    /\ pre_state.version >= MIN_VERSION
    /\ peer_state.handshake_complete
    /\ peer_state.version = pre_state.version

StatelessKinds ==
    {"Inv", "GetData", "GetHeaders", "Headers", "Block", "Tx", "Ping", "MemPool"}

(* C28: Inv, GetData, GetHeaders, Headers, Block, Tx, Ping and MemPool     *)
(* leave every field of PeerState as it was, whatever they answer; Addr    *)
(* changes known_addresses alone; FeeFilter changes min_fee_rate alone, to *)
(* the rate announced; VerAck changes handshake_complete alone.            *)
C28_HandlerFrames ==
    /\ (call.op = "process_network_message" /\ call.message.kind \in StatelessKinds)
           => peer_state = pre_state
    /\ Received("Addr")
           => peer_state = [pre_state EXCEPT
                               !.known_addresses = peer_state.known_addresses]
    /\ Received("FeeFilter")
           => peer_state = [pre_state EXCEPT
                               !.min_fee_rate = Some(call.message.feerate)]
    /\ Received("VerAck")
           => peer_state = [pre_state EXCEPT
                               !.handshake_complete = peer_state.handshake_complete]

(* a second FeeFilter replaces the rate of the first *)
C28_Witness ==
    /\ Received("FeeFilter")
    /\ pre_state.min_fee_rate = Some(1)
    /\ call.message.feerate = 1000
    /\ peer_state = [pre_state EXCEPT !.min_fee_rate = Some(1000)]

(* C29: no call of process_network_message sets ping_nonce: in every       *)
(* PeerState reached from PeerState::new() ping_nonce and last_pong are    *)
(* None, and every Pong is answered Ok and leaves the PeerState as it was. *)
C29_PingNonceNeverSet ==
    /\ peer_state.ping_nonce = None
    /\ peer_state.last_pong = None
    /\ Received("Pong") => (result = OkR(RespOk) /\ peer_state = pre_state)

(* a Pong received as the last of MaxSteps messages finds nothing to match *)
C29_Witness ==
    /\ Received("Pong")
    /\ steps = MaxSteps
    /\ peer_state = PeerState_new
    /\ result = OkR(RespOk)

----------------------------------------------------------------------------
(* The engine's entry points called directly.  An argument list is drawn   *)
(* in the initial state and the entry point it names is applied to it      *)
(* once; call then names the entry point and result holds what it          *)
(* returned.                                                               *)

(* structural size exactly max_tx_size, and one byte more *)
FullTx == [inputs |-> Pad(<<>>, 99, 10000), outputs |-> <<6016>>]
OverFullTx == [inputs |-> Pad(<<>>, 99, 10000), outputs |-> <<6017>>]
(* over max_tx_size and with a script over max_script_size *)
OverBothTx == [inputs |-> Pad(<<10001>>, 100, 10000), outputs |-> <<23>>]
LongOutputTx == [inputs |-> <<2>>, outputs |-> <<10001>>]
(* structural size 2^32 + 94: two unlock scripts of 2^31 - 1 bytes *)
TwoGigTx == [inputs |-> <<2147483647, 2147483647>>, outputs |-> <<>>]
(* structural size 2^32 + 4160 with every script at max_script_size *)
HugeTx == [inputs |-> Pad(<<>>, 427786, 10000), outputs |-> <<>>]

(* structural size exactly max_block_size, and one byte more *)
AtLimitBlock ==
    [transactions |->
        <<FullTx, FullTx, FullTx,
          [inputs |-> Pad(<<>>, 99, 10000), outputs |-> <<5932>>]>>]
OverLimitBlock ==
    [transactions |->
        <<FullTx, FullTx, FullTx,
          [inputs |-> Pad(<<>>, 99, 10000), outputs |-> <<5933>>]>>]
LimitCountBlock == [transactions |-> Pad(<<>>, MAX_BLOCK_TXS, EmptyTx)]
TwoGigBlock == [transactions |-> <<TwoGigTx>>]
HugeBlock == [transactions |-> <<HugeTx>>]

ConsensusBlockFailure == ErrR(ConsensusError("BlockValidation", "bad-blk"))
ConsensusTxFailure == ErrR(ConsensusError("TransactionValidation", "bad-txns"))

BlockInput(engine, block, consensus) ==
    [op |-> "input", api |-> "validate_block_with_protocol", engine |-> engine,
     block |-> block, utxos |-> EmptyUtxoSet, height |-> 5,
     context |-> ProtocolValidationContext_new(get_protocol_version(engine), 5).value,
     consensus |-> consensus]

TxInput(engine, tx, consensus) ==
    [op |-> "input", api |-> "validate_transaction_with_protocol", engine |-> engine,
     tx |-> tx,
     context |-> ProtocolValidationContext_new(get_protocol_version(engine), 5).value,
     consensus |-> consensus]

ValidateBlockInputs ==
    {BlockInput(e, b, c) :
        e \in Engines, b \in {SmallBlock, LongScriptBlock},
        c \in {ConsensusValid, ConsensusInvalid, ConsensusFailure, ConsensusBlockFailure}}
    \cup {BlockInput(EngineBuilt("BitcoinV1", k), b, c) :
        k \in BOOLEAN,
        b \in {LongBlock, AtLimitBlock, OverLimitBlock, ManyTxBlock, LimitCountBlock,
               TwoGigBlock},
        c \in {ConsensusValid, ConsensusInvalid}}
    \cup {BlockInput(EngineBuilt("BitcoinV1", k), HugeBlock, ConsensusValid) :
        k \in BOOLEAN}

ValidateTransactionInputs ==
    {TxInput(e, t, c) :
        e \in Engines, t \in {SmallTx, LongScriptTx},
        c \in {ConsensusValid, ConsensusInvalid, ConsensusFailure, ConsensusTxFailure}}
    \cup {TxInput(EngineBuilt("BitcoinV1", k), t, c) :
        k \in BOOLEAN,
        t \in {EmptyTx, LimitScriptTx, LongTx, FullTx, OverFullTx, OverBothTx,
               LongOutputTx, TwoGigTx},
        c \in {ConsensusValid, ConsensusInvalid}}
    \cup {TxInput(EngineBuilt("BitcoinV1", k), HugeTx, ConsensusValid) : k \in BOOLEAN}

FeatureNames == {"segwit", "taproot", "rbf", "ctv", "fast_mining", "nonexistent", ""}
ContextHeights == {0, 1000, 481824, 800000}

FeatureInput(version, height, feature) ==
    [op |-> "input", api |-> "is_feature_enabled", version |-> version,
     height |-> height, feature |-> feature]

FeatureInputs ==
    {FeatureInput(v, h, f) : v \in ProtocolVersions, h \in ContextHeights,
                             f \in FeatureNames}

----------------------------------------------------------------------------
(* Economic parameters.  An amount is a u64, held as four 16-bit limbs,    *)
(* the most significant first; heights and intervals are plain integers.   *)

U64(n) == <<0, 0, n \div LIMB, n % LIMB>>

U64_MAX == <<LIMB - 1, LIMB - 1, LIMB - 1, LIMB - 1>>

(* u times a factor of at most 2^15, as the literal's digit groups are read *)
Times(u, m) ==
    LET p4 == u[4] * m
        p3 == u[3] * m + (p4 \div LIMB)
        p2 == u[2] * m + (p3 \div LIMB)
        p1 == u[1] * m + (p2 \div LIMB)
    IN  <<p1 % LIMB, p2 % LIMB, p3 % LIMB, p4 % LIMB>>

U64Ge(a, b) ==
    \/ a = b
    \/ \E i \in 1..4 : a[i] > b[i] /\ \A j \in 1..(i - 1) : a[j] = b[j]

(* u >> k on 64 bits, for 0 <= k < 64: whole limbs move down by k / 16,    *)
(* then every limb takes the low k % 16 bits of the limb above it.         *)
shr(u, k) ==
    LET q == k \div 16
        r == k % 16
        w == Eager([i \in 1..4 |-> IF i - q >= 1 THEN u[i - q] ELSE 0])
    IN  Eager([i \in 1..4 |->
                  (w[i] \div (2 ^ r))
                  + (IF i > 1 THEN (w[i - 1] % (2 ^ r)) * (2 ^ (16 - r)) ELSE 0)])

EconomicParameters_mainnet ==
    [initial_subsidy |-> Times(U64(500000), 10000),
     halving_interval |-> 210000,
     max_money_supply |-> Times(Times(Times(Times(U64(21), 10000), 10000), 10000), 10000),
     coinbase_maturity |-> 100,
     dust_limit |-> U64(546),
     min_fee_rate |-> U64(1),
     max_fee_rate |-> U64(1000000),
     min_relay_fee |-> U64(1000),
     subsidy_schedule |-> <<>>]

EconomicParameters_testnet == EconomicParameters_mainnet

EconomicParameters_regtest ==
    [EconomicParameters_mainnet EXCEPT !.halving_interval = 150,
                                       !.min_fee_rate = U64(0),
                                       !.min_relay_fee = U64(0)]

EconomicParameters_for_protocol(version) ==
    CASE version = "BitcoinV1" -> EconomicParameters_mainnet
      [] version = "Testnet3" -> EconomicParameters_testnet
      [] version = "Regtest" -> EconomicParameters_regtest

(* the halving formula with the cut-off after the 64th halving removed and *)
(* the shift count taken modulo 64, as the shift instruction takes it      *)
get_block_subsidy_shift_masked(params, height) ==
    IF params.subsidy_schedule # <<>>
    THEN LET qualifying == {i \in 1..Len(params.subsidy_schedule) :
                               height >= params.subsidy_schedule[i][1]}
         IN  IF qualifying = {} THEN OkR(U64(0))
             ELSE OkR(params.subsidy_schedule[
                         CHOOSE i \in qualifying : \A j \in qualifying : j <= i][2])
    ELSE IF params.halving_interval = 0 THEN Panic("attempt to divide by zero")
    ELSE LET halving_period == height \div params.halving_interval
         IN  OkR(shr(params.initial_subsidy, halving_period % 64))

(* the halving period counted from height + 1 *)
get_block_subsidy_period_early(params, height) ==
    IF params.subsidy_schedule # <<>>
    THEN LET qualifying == {i \in 1..Len(params.subsidy_schedule) :
                               height >= params.subsidy_schedule[i][1]}
         IN  IF qualifying = {} THEN OkR(U64(0))
             ELSE OkR(params.subsidy_schedule[
                         CHOOSE i \in qualifying : \A j \in qualifying : j <= i][2])
    ELSE IF params.halving_interval = 0 THEN Panic("attempt to divide by zero")
    ELSE LET halving_period == (height + 1) \div params.halving_interval
         IN  IF halving_period >= 64 THEN OkR(U64(0))
             ELSE OkR(shr(params.initial_subsidy, halving_period))

(* A non-empty schedule is walked from its last entry to its first and the *)
(* first entry met whose height is at most the target answers: the entry   *)
(* of the greatest index among the qualifying ones.  An empty schedule     *)
(* leaves the halving formula, whose division panics on an interval of 0.  *)
get_block_subsidy(params, height) ==
    IF params.subsidy_schedule # <<>>
    THEN LET qualifying == {i \in 1..Len(params.subsidy_schedule) :
                               height >= params.subsidy_schedule[i][1]}
         IN  IF qualifying = {} THEN OkR(U64(0))
             ELSE OkR(params.subsidy_schedule[
                         CHOOSE i \in qualifying : \A j \in qualifying : j <= i][2])
    ELSE IF params.halving_interval = 0 THEN Panic("attempt to divide by zero")
    ELSE LET halving_period == height \div params.halving_interval
         IN  IF halving_period >= 64 THEN OkR(U64(0))
             ELSE OkR(shr(params.initial_subsidy, halving_period))

(* u64 `<` and `>` *)
U64Lt(a, b) == ~U64Ge(a, b)
U64Gt(a, b) == ~U64Ge(b, a)

(* u64::saturating_add: the limbs are added from the least significant     *)
(* with carry, and a carry out of the most significant clamps to u64::MAX  *)
saturating_add(a, b) ==
    LET s4 == a[4] + b[4]
        s3 == a[3] + b[3] + (s4 \div LIMB)
        s2 == a[2] + b[2] + (s3 \div LIMB)
        s1 == a[1] + b[1] + (s2 \div LIMB)
    IN  IF s1 >= LIMB THEN U64_MAX
        ELSE <<s1, s2 % LIMB, s3 % LIMB, s4 % LIMB>>

(* (size as u64).saturating_mul(rate), for a size below 2^15 *)
saturating_mul(size, rate) ==
    LET p4 == rate[4] * size
        p3 == rate[3] * size + (p4 \div LIMB)
        p2 == rate[2] * size + (p3 \div LIMB)
        p1 == rate[1] * size + (p2 \div LIMB)
    IN  IF p1 >= LIMB THEN U64_MAX
        ELSE <<p1, p2 % LIMB, p3 % LIMB, p4 % LIMB>>

(* one turn of `for h in 0..=height`, given the subsidy of h: a panic of   *)
(* get_block_subsidy ends the call                                         *)
RECURSIVE supply_loop(_, _, _, _)
supply_step(params, h, height, total, subsidy) ==
    IF subsidy.variant # "Ok" THEN subsidy
    ELSE supply_loop(params, h + 1, height, saturating_add(total, subsidy.value))

supply_loop(params, h, height, total) ==
    IF h > height THEN OkR(total)
    ELSE supply_step(params, h, height, total, get_block_subsidy(params, h))

total_supply_at_height(params, height) == supply_loop(params, 0, height, U64(0))

is_dust(params, value) == U64Lt(value, params.dust_limit)

is_valid_fee_rate(params, fee_rate) ==
    U64Ge(fee_rate, params.min_fee_rate) /\ U64Ge(params.max_fee_rate, fee_rate)

calculate_fee(params, size_vbytes, fee_rate_sat_per_vbyte) ==
    IF ~is_valid_fee_rate(params, fee_rate_sat_per_vbyte) THEN U64(0)
    ELSE saturating_mul(size_vbytes, fee_rate_sat_per_vbyte)

(* the comparison of exceeds_max_supply, given the total supply *)
over_supply(params, total) ==
    IF total.variant # "Ok" THEN total
    ELSE OkR(U64Gt(total.value, params.max_money_supply))

exceeds_max_supply(params, height) ==
    over_supply(params, total_supply_at_height(params, height))

(* Arguments of get_block_subsidy: the defaults of the three variants and  *)
(* parameters built by hand, at the heights next to every halving up to    *)
(* the 66th; schedules in ascending order, out of order and of one entry.  *)
MaxHalvings == 66

HalvingHeights(interval) ==
    {h \in {k * interval + d : k \in 0..MaxHalvings, d \in {-1, 0, 1}} : h >= 0}

CustomHalving(initial_subsidy, halving_interval) ==
    [EconomicParameters_mainnet EXCEPT !.initial_subsidy = initial_subsidy,
                                       !.halving_interval = halving_interval]

HalvingParameters ==
    {EconomicParameters_for_protocol(v) : v \in ProtocolVersions}
    \cup {CustomHalving(s, i) :
             s \in {U64_MAX, <<32768, 0, 0, 0>>, <<0, 1, 0, 1>>, U64(1), U64(0)},
             i \in {1, 150}}

WithSchedule(schedule) ==
    [EconomicParameters_mainnet EXCEPT !.subsidy_schedule = schedule]

Coins(n) == Times(Times(U64(n), 10000), 10000)

AscendingSchedule == <<<<0, Coins(100)>>, <<1000, Coins(50)>>, <<210000, Coins(25)>>>>
LateSchedule == <<<<1000, Coins(50)>>>>
RisingSchedule == <<<<0, Coins(25)>>, <<1000, Coins(50)>>>>
UnorderedSchedule == <<<<1000, Coins(50)>>, <<0, Coins(100)>>>>

ScheduleParameters ==
    {WithSchedule(s) :
        s \in {AscendingSchedule, LateSchedule, RisingSchedule, UnorderedSchedule}}

ScheduleHeights == {0, 1, 999, 1000, 1001, 209999, 210000, 210001, 420000}

SubsidyInput(params, height) ==
    [op |-> "input", api |-> "get_block_subsidy", params |-> params, height |-> height]

SubsidyInputs ==
    {SubsidyInput(p, h) : p \in ScheduleParameters, h \in ScheduleHeights}
    \cup UNION {{SubsidyInput(p, h) : h \in HalvingHeights(p.halving_interval)} :
                   p \in HalvingParameters}

----------------------------------------------------------------------------
(* Feature activation.  Heights and timestamps are integers below 2^31.   *)

FeatureActivation(feature_name, activation_height, activation_timestamp, activation_method, bip_number) ==
    [feature_name |-> feature_name, activation_height |-> activation_height,
     activation_timestamp |-> activation_timestamp,
     activation_method |-> activation_method, bip_number |-> bip_number]

AlwaysActive(feature_name, bip_number) ==
    FeatureActivation(feature_name, Some(0), None, "AlwaysActive", bip_number)

(* BIP9 requiring both thresholds to be passed *)
is_active_at_both(feature, height, timestamp) ==
    CASE feature.activation_method \in {"AlwaysActive", "HardFork"} -> TRUE
      [] feature.activation_method = "HeightBased" ->
            IsSome(feature.activation_height)
            /\ height >= Unwrap(feature.activation_height)
      [] feature.activation_method = "Timestamp" ->
            IsSome(feature.activation_timestamp)
            /\ timestamp >= Unwrap(feature.activation_timestamp)
      [] feature.activation_method = "BIP9" ->
            /\ IsSome(feature.activation_height)
            /\ height >= Unwrap(feature.activation_height)
            /\ IsSome(feature.activation_timestamp)
            /\ timestamp >= Unwrap(feature.activation_timestamp)

(* a height threshold that holds for the activation block alone *)
is_active_at_activation_block(feature, height, timestamp) ==
    CASE feature.activation_method \in {"AlwaysActive", "HardFork"} -> TRUE
      [] feature.activation_method = "HeightBased" ->
            IsSome(feature.activation_height)
            /\ height = Unwrap(feature.activation_height)
      [] feature.activation_method = "Timestamp" ->
            IsSome(feature.activation_timestamp)
            /\ timestamp >= Unwrap(feature.activation_timestamp)
      [] feature.activation_method = "BIP9" ->
            LET height_active ==
                    IsSome(feature.activation_height)
                    /\ height = Unwrap(feature.activation_height)
                timestamp_active ==
                    IsSome(feature.activation_timestamp)
                    /\ timestamp >= Unwrap(feature.activation_timestamp)
            IN  height_active \/ timestamp_active

is_active_at(feature, height, timestamp) ==
    CASE feature.activation_method \in {"AlwaysActive", "HardFork"} -> TRUE
      [] feature.activation_method = "HeightBased" ->
            IsSome(feature.activation_height)
            /\ height >= Unwrap(feature.activation_height)
      [] feature.activation_method = "Timestamp" ->
            IsSome(feature.activation_timestamp)
            /\ timestamp >= Unwrap(feature.activation_timestamp)
      [] feature.activation_method = "BIP9" ->
            LET height_active ==
                    IsSome(feature.activation_height)
                    /\ height >= Unwrap(feature.activation_height)
                timestamp_active ==
                    IsSome(feature.activation_timestamp)
                    /\ timestamp >= Unwrap(feature.activation_timestamp)
            IN  height_active \/ timestamp_active

FeatureRegistry_mainnet ==
    [protocol_version |-> "BitcoinV1",
     features |-> <<FeatureActivation("segwit", Some(481824), Some(1503539857), "BIP9", Some(141)),
                    FeatureActivation("taproot", Some(709632), Some(1636934400), "BIP9", Some(341)),
                    AlwaysActive("rbf", Some(125)),
                    FeatureActivation("ctv", None, None, "BIP9", Some(119)),
                    AlwaysActive("csv", Some(112)),
                    AlwaysActive("cltv", Some(65))>>]

FeatureRegistry_testnet ==
    [protocol_version |-> "Testnet3",
     features |-> <<FeatureActivation("segwit", Some(465600), Some(1493596800), "BIP9", Some(141)),
                    FeatureActivation("taproot", Some(2016000), Some(1628640000), "BIP9", Some(341)),
                    AlwaysActive("rbf", Some(125)),
                    AlwaysActive("csv", Some(112)),
                    AlwaysActive("cltv", Some(65))>>]

FeatureRegistry_regtest ==
    [protocol_version |-> "Regtest",
     features |-> <<AlwaysActive("segwit", Some(141)),
                    AlwaysActive("taproot", Some(341)),
                    AlwaysActive("rbf", Some(125)),
                    AlwaysActive("csv", Some(112)),
                    AlwaysActive("cltv", Some(65)),
                    AlwaysActive("fast_mining", None)>>]

FeatureRegistry_for_protocol(version) ==
    CASE version = "BitcoinV1" -> FeatureRegistry_mainnet
      [] version = "Testnet3" -> FeatureRegistry_testnet
      [] version = "Regtest" -> FeatureRegistry_regtest

(* a name without an entry answered true *)
is_feature_active_by_default(registry, feature_name, height, timestamp) ==
    LET found == {i \in 1..Len(registry.features) :
                     registry.features[i].feature_name = feature_name}
    IN  IF found = {} THEN TRUE
        ELSE is_active_at(registry.features[CHOOSE i \in found : \A j \in found : i <= j],
                          height, timestamp)

(* find() takes the first entry of the name; unwrap_or(false) without one *)
is_feature_active(registry, feature_name, height, timestamp) ==
    LET found == {i \in 1..Len(registry.features) :
                     registry.features[i].feature_name = feature_name}
    IN  IF found = {} THEN FALSE
        ELSE is_active_at(registry.features[CHOOSE i \in found : \A j \in found : i <= j],
                          height, timestamp)

create_context(registry, height, timestamp) ==
    [segwit |-> is_feature_active(registry, "segwit", height, timestamp),
     taproot |-> is_feature_active(registry, "taproot", height, timestamp),
     csv |-> is_feature_active(registry, "csv", height, timestamp),
     cltv |-> is_feature_active(registry, "cltv", height, timestamp),
     rbf |-> is_feature_active(registry, "rbf", height, timestamp),
     ctv |-> is_feature_active(registry, "ctv", height, timestamp),
     height |-> height,
     timestamp |-> timestamp]

(* Arguments of the feature operations: activations of every method with   *)
(* each threshold set and unset, the registries of the three variants, and *)
(* the heights and timestamps at and next to the thresholds.               *)
ActivationMethods == {"BIP9", "HeightBased", "Timestamp", "HardFork", "AlwaysActive"}

Activations ==
    {FeatureActivation("feature", h, t, m, None) :
        h \in {None, Some(0), Some(100)}, t \in {None, Some(0), Some(1000)},
        m \in ActivationMethods}

ActivationHeights == {0, 99, 100, 101}
ActivationTimestamps == {0, 999, 1000, 1001}

ActivationInputs ==
    {[op |-> "input", api |-> "is_active_at", feature |-> a, height |-> h, timestamp |-> t] :
        a \in Activations, h \in ActivationHeights, t \in ActivationTimestamps}

GENESIS_TIMESTAMP == 1231006505

RegistryHeights == {0, 465599, 465600, 481823, 481824, 709632, 2015999, 2016000}

RegistryTimestamps ==
    {0, GENESIS_TIMESTAMP, 1493596800, 1503539857, 1628640000, 1636934399, 1636934400}

RegistryNames == FeatureNames \cup {"csv", "cltv"}

RegistryInputs ==
    {[op |-> "input", api |-> "is_feature_active", version |-> v, feature |-> n,
      height |-> h, timestamp |-> t] :
        v \in ProtocolVersions, n \in RegistryNames,
        h \in RegistryHeights, t \in RegistryTimestamps}

ContextInputs ==
    {[op |-> "input", api |-> "create_context", version |-> v,
      height |-> h, timestamp |-> t] :
        v \in ProtocolVersions, h \in RegistryHeights, t \in RegistryTimestamps}

ActivationQueries == ActivationInputs \cup RegistryInputs \cup ContextInputs

(* Arguments of the other operations of EconomicParameters: the defaults,  *)
(* parameters with every field 0 and with every field at its maximum, and  *)
(* a schedule whose sum passes u64::MAX.  The interval is held as an       *)
(* integer below 2^31 and a size in vbytes below 2^15.                     *)
MaxSupplyHeight == 9

ZeroParameters ==
    [initial_subsidy |-> U64(0), halving_interval |-> 0, max_money_supply |-> U64(0),
     coinbase_maturity |-> 0, dust_limit |-> U64(0), min_fee_rate |-> U64(0),
     max_fee_rate |-> U64(0), min_relay_fee |-> U64(0), subsidy_schedule |-> <<>>]

MaxParameters ==
    [initial_subsidy |-> U64_MAX, halving_interval |-> 2147483647,
     max_money_supply |-> U64_MAX, coinbase_maturity |-> 2147483647,
     dust_limit |-> U64_MAX, min_fee_rate |-> U64_MAX, max_fee_rate |-> U64_MAX,
     min_relay_fee |-> U64_MAX, subsidy_schedule |-> <<>>]

AnyFeeParameters ==
    [EconomicParameters_mainnet EXCEPT !.min_fee_rate = U64(0), !.max_fee_rate = U64_MAX]

SaturatingSchedule == <<<<0, Coins(50)>>, <<2, <<32768, 0, 0, 0>>>>>>

SupplyParameters ==
    {EconomicParameters_mainnet, EconomicParameters_regtest,
     CustomHalving(U64_MAX, 1), CustomHalving(U64_MAX, 3),
     WithSchedule(AscendingSchedule), WithSchedule(LateSchedule),
     WithSchedule(SaturatingSchedule), ZeroParameters, MaxParameters}

SupplyHeights == 0..MaxSupplyHeight

EconomicInput(api, params, argument) ==
    [op |-> "input", api |-> api, params |-> params, argument |-> argument]

SupplyInputs ==
    {EconomicInput(api, p, h) :
        api \in {"total_supply_at_height", "exceeds_max_supply"},
        p \in SupplyParameters, h \in SupplyHeights}

FeeParameters ==
    {EconomicParameters_mainnet, EconomicParameters_regtest, AnyFeeParameters,
     ZeroParameters, MaxParameters}

Amounts == {U64(0), U64(1), U64(545), U64(546), U64(1000000), U64(1000001), U64_MAX}

AmountInputs ==
    {EconomicInput(api, p, v) :
        api \in {"is_dust", "is_valid_fee_rate"}, p \in FeeParameters, v \in Amounts}

FeeInputs ==
    {EconomicInput("calculate_fee", p, <<size, rate>>) :
        p \in FeeParameters, size \in {0, 250, 32767}, rate \in Amounts}

EconomicInputs ==
    SupplyInputs \cup AmountInputs \cup FeeInputs
    \cup {SubsidyInput(ZeroParameters, h) : h \in {0, 5}}

ApiInputs ==
    ValidateBlockInputs \cup ValidateTransactionInputs \cup FeatureInputs
    \cup SubsidyInputs \cup EconomicInputs
    \cup ActivationQueries

InitApi ==
    /\ peer_state = PeerState_new
    /\ pre_state = PeerState_new
    /\ shared_engine \in BuiltEngines
    /\ call \in {c \in ApiInputs :
                   "engine" \in DOMAIN c
                       => c.engine.overflow_checks = shared_engine.overflow_checks}
    /\ result = None
    /\ effects = NoEffects
    /\ addr_log = <<>>
    /\ tasks = <<>>
    /\ steps = 0

Returned(out) ==
    /\ result' = out.result
    /\ effects' = [chain_calls |-> out.chain_calls,
                   consensus_calls |-> out.consensus_calls,
                   protocol_checks |-> out.protocol_checks]
    /\ call' = [call EXCEPT !.op = call.api]
    /\ UNCHANGED <<peer_state, pre_state, addr_log, shared_engine, tasks, steps>>

ValidateBlock ==
    /\ call.op = "input"
    /\ call.api = "validate_block_with_protocol"
    /\ Returned(validate_block_with_protocol(call.engine, call.block, call.utxos,
                                             call.height, call.context,
                                             call.consensus))

ValidateTransaction ==
    /\ call.op = "input"
    /\ call.api = "validate_transaction_with_protocol"
    /\ Returned(validate_transaction_with_protocol(call.engine, call.tx, call.context,
                                                   call.consensus))

(* ProtocolValidationContext::new(version, height)?.is_feature_enabled(name): *)
(* result holds the context and the answer.                                *)
QueryFeature ==
    /\ call.op = "input"
    /\ call.api = "is_feature_enabled"
    /\ LET context == ProtocolValidationContext_new(call.version, call.height)
       IN  Returned(Reply([context |-> context,
                           enabled |-> is_feature_enabled(context.value, call.feature)],
                          0, 0, 0))

(* EconomicParameters::get_block_subsidy(height) *)
GetBlockSubsidy ==
    /\ call.op = "input"
    /\ call.api = "get_block_subsidy"
    /\ Returned(Reply(get_block_subsidy(call.params, call.height), 0, 0, 0))

(* EconomicParameters::total_supply_at_height(height) *)
TotalSupply ==
    /\ call.op = "input"
    /\ call.api = "total_supply_at_height"
    /\ Returned(Reply(total_supply_at_height(call.params, call.argument), 0, 0, 0))

(* EconomicParameters::exceeds_max_supply(height) *)
ExceedsMaxSupply ==
    /\ call.op = "input"
    /\ call.api = "exceeds_max_supply"
    /\ Returned(Reply(exceeds_max_supply(call.params, call.argument), 0, 0, 0))

(* EconomicParameters::is_dust(value) *)
IsDust ==
    /\ call.op = "input"
    /\ call.api = "is_dust"
    /\ Returned(Reply(OkR(is_dust(call.params, call.argument)), 0, 0, 0))

(* EconomicParameters::is_valid_fee_rate(fee_rate) *)
IsValidFeeRate ==
    /\ call.op = "input"
    /\ call.api = "is_valid_fee_rate"
    /\ Returned(Reply(OkR(is_valid_fee_rate(call.params, call.argument)), 0, 0, 0))

(* EconomicParameters::calculate_fee(size_vbytes, fee_rate_sat_per_vbyte) *)
CalculateFee ==
    /\ call.op = "input"
    /\ call.api = "calculate_fee"
    /\ Returned(Reply(OkR(calculate_fee(call.params, call.argument[1],
                                        call.argument[2])), 0, 0, 0))

(* FeatureActivation::is_active_at(height, timestamp) *)
IsActiveAt ==
    /\ call.op = "input"
    /\ call.api = "is_active_at"
    /\ Returned(Reply(OkR(is_active_at(call.feature, call.height, call.timestamp)),
                      0, 0, 0))

(* FeatureRegistry::for_protocol(version).is_feature_active(name, height,  *)
(* timestamp)                                                              *)
IsFeatureActive ==
    /\ call.op = "input"
    /\ call.api = "is_feature_active"
    /\ Returned(Reply(OkR(is_feature_active(FeatureRegistry_for_protocol(call.version),
                                            call.feature, call.height,
                                            call.timestamp)), 0, 0, 0))

(* FeatureRegistry::for_protocol(version).create_context(height, timestamp) *)
CreateContext ==
    /\ call.op = "input"
    /\ call.api = "create_context"
    /\ Returned(Reply(OkR(create_context(FeatureRegistry_for_protocol(call.version),
                                         call.height, call.timestamp)), 0, 0, 0))

NextApi ==
    \/ ValidateBlock
    \/ ValidateTransaction
    \/ QueryFeature
    \/ GetBlockSubsidy
    \/ TotalSupply
    \/ ExceedsMaxSupply
    \/ IsDust
    \/ IsValidFeeRate
    \/ CalculateFee
    \/ IsActiveAt
    \/ IsFeatureActive
    \/ CreateContext

SpecApi == InitApi /\ [][NextApi]_vars

Applied(api) == call.op = api

(* What a caller can tell an outcome by without reading a message text:    *)
(* the validation result returned, or the variant of the error.            *)
OutcomeClass(res) ==
    IF res.variant = "Ok" THEN <<"Ok", res.value.tag>>
    ELSE IF res.variant = "Err" THEN <<"Err", res.error.error>>
    ELSE <<res.variant>>

(* The outcomes of validate_block_with_protocol on a block within every    *)
(* protocol limit that the consensus engine fails.                         *)
ConsensusFailureOutcomes(engine, context) ==
    {validate_block_with_protocol(engine, SmallBlock, EmptyUtxoSet, 5, context,
                                  c).result :
        c \in {ConsensusInvalid, ConsensusFailure, ConsensusBlockFailure}}

(* C13: when validate_block_with_protocol fails a block at the protocol    *)
(* layer (the consensus engine returned a validation result and the block  *)
(* is over a protocol limit), the outcome is of another class than every   *)
(* outcome of a consensus failure.                                         *)
C13_DistinctFailureClasses ==
    (/\ Applied("validate_block_with_protocol")
     /\ call.consensus.variant = "Ok"
     /\ \/ BlockOverLimit(call.block, call.context.validation_rules)
        \/ Len(call.block.transactions) > MAX_BLOCK_TXS
     /\ result.variant = "Err")
        => \A failure \in ConsensusFailureOutcomes(call.engine, call.context) :
              OutcomeClass(failure) # OutcomeClass(result)

(* C14: a block whose structural size over the integers exceeds            *)
(* max_block_size, sizes beyond 2^32 - 1 included, is failed with the      *)
(* block-size protocol error whenever the consensus engine returned a      *)
(* validation result.                                                      *)
C14_OversizedBlockFails ==
    (/\ Applied("validate_block_with_protocol")
     /\ call.consensus.variant = "Ok"
     /\ WGt(BlockBytes(call.block), Wide(call.context.validation_rules.max_block_size)))
        => result = ErrR(ConsensusError("BlockValidation", "Block size exceeds maximum"))

TxScriptOverLimit(tx, rules) ==
    \/ \E i \in 1..Len(tx.inputs) : tx.inputs[i] > rules.max_script_size
    \/ \E i \in 1..Len(tx.outputs) : tx.outputs[i] > rules.max_script_size

(* C15: validate_transaction_with_protocol asks the consensus engine       *)
(* first; it returns the consensus result unchanged exactly when the       *)
(* structural size is at most max_tx_size and every script is at most      *)
(* max_script_size; otherwise it fails with the transaction protocol       *)
(* error, the size error taking precedence over the script error.          *)
C15_TransactionLimits ==
    Applied("validate_transaction_with_protocol")
        => /\ effects.consensus_calls = 1
           /\ IF call.consensus.variant # "Ok"
              THEN result = call.consensus /\ effects.protocol_checks = 0
              ELSE IF WGt(TxBytes(call.tx), Wide(call.context.validation_rules.max_tx_size))
              THEN result = ErrR(ConsensusError("TransactionValidation",
                                                "Transaction size exceeds maximum"))
              ELSE IF TxScriptOverLimit(call.tx, call.context.validation_rules)
              THEN result = ErrR(ConsensusError("TransactionValidation",
                                                "Script size exceeds maximum"))
              ELSE result = OkR(call.consensus.value)

(* The statement of C15 for transactions whose structural size is within   *)
(* u32::MAX, where the u32 size of the code is the structural size.        *)
TransactionLimitsWithinU32 ==
    (/\ Applied("validate_transaction_with_protocol")
     /\ ~overflows(TxBytes(call.tx)))
        => C15_TransactionLimits

(* The statement of C14 for blocks whose transactions and structural size  *)
(* are within u32::MAX.                                                    *)
OversizedBlockFailsWithinU32 ==
    (/\ Applied("validate_block_with_protocol")
     /\ ~overflows(BlockBytes(call.block)))
        => C14_OversizedBlockFails

StaticFlag(version, feature) ==
    LET rules == ProtocolValidationRules_for_protocol(version)
    IN  CASE feature = "segwit" -> rules.segwit_enabled
          [] feature = "taproot" -> rules.taproot_enabled
          [] feature = "rbf" -> rules.rbf_enabled
          [] OTHER -> FALSE

(* C16: ProtocolValidationContext::new(variant, height) stamps the given   *)
(* height, and is_feature_enabled(name) on it is the variant's static      *)
(* segwit / taproot / rbf flag for these three names and false for every   *)
(* other name, the same at every height.                                   *)
C16_StaticFeatureFlags ==
    Applied("is_feature_enabled")
        => /\ result.context.variant = "Ok"
           /\ result.context.value.block_height = call.height
           /\ result.enabled = StaticFlag(call.version, call.feature)
           /\ call.feature \notin {"segwit", "taproot", "rbf"} => result.enabled = FALSE
           /\ \A h \in ContextHeights :
                 is_feature_enabled(ProtocolValidationContext_new(call.version, h).value,
                                    call.feature) = result.enabled

(* a context below the registry's segwit activation height answers true *)
C16_Witness ==
    /\ Applied("is_feature_enabled")
    /\ call.version = "BitcoinV1"
    /\ call.height = 1000
    /\ call.feature = "segwit"
    /\ result.enabled = TRUE
    /\ result.context.value.block_height = 1000

EmptySchedule == call.params.subsidy_schedule = <<>> /\ call.params.halving_interval > 0

(* C18: with an empty subsidy schedule (the halving schedule, of a         *)
(* positive interval as in every variant's default), the subsidy at        *)
(* height h is at least the subsidy at height h + 1.                       *)
C18_SubsidyNonIncreasing ==
    (Applied("get_block_subsidy") /\ EmptySchedule)
        => /\ result.variant = "Ok"
           /\ U64Ge(result.value,
                    get_block_subsidy(call.params, call.height + 1).value)

(* the last mainnet block before the first halving: 50 coins, then 25 *)
C18_Witness ==
    /\ Applied("get_block_subsidy")
    /\ call.params = EconomicParameters_for_protocol("BitcoinV1")
    /\ call.height = 209999
    /\ result = OkR(Coins(50))
    /\ get_block_subsidy(call.params, call.height + 1) = OkR(Times(U64(250000), 10000))

(* floor(u / 2), by long division from the most significant limb *)
Halve(u) ==
    <<u[1] \div 2,
      ((u[1] % 2) * LIMB + u[2]) \div 2,
      ((u[2] % 2) * LIMB + u[3]) \div 2,
      ((u[3] % 2) * LIMB + u[4]) \div 2>>

(* floor(u / 2^k): u halved k times, the first k / 2 halvings worked out  *)
(* to a value w before the others are applied to it                        *)
RECURSIVE HalveTimes(_, _)
HalveTimes(u, k) ==
    IF k = 0 THEN u
    ELSE IF k = 1 THEN Halve(u)
    ELSE CHOOSE v \in {HalveTimes(w, k - (k \div 2)) : w \in {HalveTimes(u, k \div 2)}} : TRUE

(* C19: with an empty subsidy schedule and a positive halving interval,    *)
(* the subsidy at height h is 0 when h / halving_interval >= 64 and        *)
(* otherwise floor(initial_subsidy / 2^(h / halving_interval)); it differs *)
(* from the subsidy of the height before only at a multiple of the         *)
(* interval.                                                               *)
C19_HalvingFormula ==
    (Applied("get_block_subsidy") /\ EmptySchedule)
        => LET halvings == call.height \div call.params.halving_interval
           IN  /\ result = OkR(IF halvings >= 64 THEN U64(0)
                               ELSE HalveTimes(call.params.initial_subsidy, halvings))
               /\ call.height % call.params.halving_interval # 0
                     => get_block_subsidy(call.params, call.height - 1) = result

(* the 63rd halving of an initial subsidy of u64::MAX leaves 1 *)
C19_Witness ==
    /\ Applied("get_block_subsidy")
    /\ call.params.subsidy_schedule = <<>>
    /\ call.params.initial_subsidy = U64_MAX
    /\ call.params.halving_interval = 150
    /\ call.height = 63 * 150 + 1
    /\ result = OkR(U64(1))

(* the index of the entry of the greatest height among those whose height  *)
(* is at most the target                                                   *)
HighestQualifying(schedule, height) ==
    LET qualifying == {i \in 1..Len(schedule) : schedule[i][1] <= height}
    IN  IF qualifying = {} THEN 0
        ELSE CHOOSE i \in qualifying : \A j \in qualifying : schedule[j][1] <= schedule[i][1]

(* C20: with a non-empty subsidy schedule, whatever the order of its       *)
(* entries, the subsidy at height h is the subsidy of the entry with the   *)
(* highest height not exceeding h, and 0 when no entry has a height of at  *)
(* most h; the halving formula is not used.                                *)
C20_ScheduleLookup ==
    (Applied("get_block_subsidy") /\ call.params.subsidy_schedule # <<>>)
        => LET entry == HighestQualifying(call.params.subsidy_schedule, call.height)
           IN  result = OkR(IF entry = 0 THEN U64(0)
                            ELSE call.params.subsidy_schedule[entry][2])

Ascending(schedule) ==
    \A i, j \in 1..Len(schedule) : i < j => schedule[i][1] < schedule[j][1]

(* The statement of C20 for the schedules whose entries are in ascending   *)
(* order of height.                                                        *)
ScheduleLookupAscending ==
    (Applied("get_block_subsidy") /\ Ascending(call.params.subsidy_schedule))
        => C20_ScheduleLookup

SubsidiesDefined ==
    call.params.subsidy_schedule # <<>> \/ call.params.halving_interval > 0

RECURSIVE ColumnSum(_, _, _)
ColumnSum(amounts, i, n) ==
    IF n = 0 THEN 0 ELSE amounts[n][i] + ColumnSum(amounts, i, n - 1)

(* the sum of the subsidies of the heights 0..height clamped at u64::MAX:  *)
(* each limb column is summed over the heights, then the carries are taken *)
ClampedSupply(params, height) ==
    LET subsidies == Eager([k \in 1..(height + 1) |->
                               get_block_subsidy(params, k - 1).value])
        c4 == ColumnSum(subsidies, 4, height + 1)
        c3 == ColumnSum(subsidies, 3, height + 1) + (c4 \div LIMB)
        c2 == ColumnSum(subsidies, 2, height + 1) + (c3 \div LIMB)
        c1 == ColumnSum(subsidies, 1, height + 1) + (c2 \div LIMB)
    IN  IF c1 >= LIMB THEN U64_MAX
        ELSE <<c1, c2 % LIMB, c3 % LIMB, c4 % LIMB>>

(* C21: for every parameter set, total_supply_at_height(h) is the sum of   *)
(* get_block_subsidy(k) over k in 0..h clamped at u64::MAX, and it is at   *)
(* most total_supply_at_height(h + 1).                                     *)
C21_SaturatingSupply ==
    Applied("total_supply_at_height")
        => /\ result.variant = "Ok"
           /\ result.value = ClampedSupply(call.params, call.argument)
           /\ LET next == total_supply_at_height(call.params, call.argument + 1)
              IN  next.variant = "Ok" /\ U64Ge(next.value, result.value)

(* The statement of C21 for the parameter sets with a schedule or with a   *)
(* halving interval that is not 0.                                         *)
SaturatingSupplyWhereDefined ==
    (Applied("total_supply_at_height") /\ SubsidiesDefined) => C21_SaturatingSupply

(* a schedule whose sum passes u64::MAX leaves the total at u64::MAX, and  *)
(* ten mainnet blocks leave ten subsidies                                  *)
SupplySaturates ==
    /\ Applied("total_supply_at_height")
    /\ call.params.subsidy_schedule = SaturatingSchedule
    /\ call.argument = 3
    /\ result = OkR(U64_MAX)

SupplyOfTenBlocks ==
    /\ Applied("total_supply_at_height")
    /\ call.params = EconomicParameters_mainnet
    /\ call.argument = 9
    /\ result = OkR(Coins(500))

EconomicOperations ==
    {"get_block_subsidy", "total_supply_at_height", "is_dust", "is_valid_fee_rate",
     "calculate_fee", "exceeds_max_supply"}

(* C22: every operation of EconomicParameters returns a value, whatever    *)
(* the fields of the parameters and the argument.                          *)
C22_EconomicOperationsTotal ==
    call.op \in EconomicOperations => result.variant = "Ok"

(* The statement of C22 for the parameter sets with a schedule or with a   *)
(* halving interval that is not 0.                                         *)
TotalWhereSubsidiesDefined ==
    (call.op \in EconomicOperations /\ SubsidiesDefined) => C22_EconomicOperationsTotal

(* where the halving interval is 0 and there is no schedule, the three     *)
(* operations that do not divide return as well                            *)
TotalWithoutSubsidy ==
    call.op \in {"is_dust", "is_valid_fee_rate", "calculate_fee"}
        => result.variant = "Ok"

(* C23: a feature of the BIP9 method is active at (height, timestamp)      *)
(* exactly when its activation height is set and reached or its activation *)
(* timestamp is set and reached; with neither set it is inactive.          *)
C23_Bip9EitherThreshold ==
    (Applied("is_active_at") /\ call.feature.activation_method = "BIP9")
        => LET by_height == call.feature.activation_height
               by_time == call.feature.activation_timestamp
           IN  /\ result = OkR((by_height # None /\ call.height >= by_height[1])
                               \/ (by_time # None /\ call.timestamp >= by_time[1]))
               /\ (by_height = None /\ by_time = None) => result = OkR(FALSE)

(* below the activation height and at the activation timestamp: active *)
C23_Witness ==
    /\ Applied("is_active_at")
    /\ call.feature.activation_method = "BIP9"
    /\ call.feature.activation_height = Some(100)
    /\ call.feature.activation_timestamp = Some(1000)
    /\ call.height = 99
    /\ call.timestamp = 1000
    /\ result = OkR(TRUE)

Registered(version, feature_name) ==
    \E i \in 1..Len(FeatureRegistry_for_protocol(version).features) :
        FeatureRegistry_for_protocol(version).features[i].feature_name = feature_name

(* C24: is_feature_active answers false for a name without an entry in the *)
(* registry, at every height and timestamp and for every variant.          *)
C24_UnregisteredInactive ==
    (Applied("is_feature_active") /\ ~Registered(call.version, call.feature))
        => result = OkR(FALSE)

(* ctv has no entry on the test network *)
C24_Witness ==
    /\ Applied("is_feature_active")
    /\ call.version = "Testnet3"
    /\ call.feature = "ctv"
    /\ call.height = 2016000
    /\ call.timestamp = 1636934400
    /\ result = OkR(FALSE)

(* C25: the context built at height 0 and the genesis timestamp on the     *)
(* regression-test variant has all six flags true.                         *)
C25_RegtestAllActive ==
    (/\ Applied("create_context")
     /\ call.version = "Regtest"
     /\ call.height = 0
     /\ call.timestamp = GENESIS_TIMESTAMP)
        => \A flag \in {"segwit", "taproot", "csv", "cltv", "rbf", "ctv"} :
               result.value[flag]

(* The five flags with an entry in the regression-test registry are true   *)
(* at every height and timestamp.                                          *)
RegtestRegisteredActive ==
    (Applied("create_context") /\ call.version = "Regtest")
        => \A flag \in {"segwit", "taproot", "csv", "cltv", "rbf"} : result.value[flag]

(* C26: segwit and taproot, where active in the Production registry at a   *)
(* (height, timestamp), are active in the Test registry there.             *)
C26_TestActivatesEarlier ==
    (/\ Applied("is_feature_active")
     /\ call.version = "BitcoinV1"
     /\ call.feature \in {"segwit", "taproot"}
     /\ result = OkR(TRUE))
        => is_feature_active(FeatureRegistry_testnet, call.feature, call.height,
                             call.timestamp)

(* The statement of C26 for segwit alone. *)
SegwitTestActivatesEarlier ==
    (Applied("is_feature_active") /\ call.feature = "segwit") => C26_TestActivatesEarlier

ContextFlags == {"segwit", "taproot", "csv", "cltv", "rbf", "ctv"}

(* C30: a feature active at (height, timestamp) is active at every later   *)
(* height and timestamp, whatever its method, and a flag true in the       *)
(* context built at (height, timestamp) is true in the context built at    *)
(* every later height and timestamp.                                       *)
C30_ActivationNeverReverts ==
    /\ (Applied("is_active_at") /\ result = OkR(TRUE))
           => \A h \in ActivationHeights, t \in ActivationTimestamps :
                  (h >= call.height /\ t >= call.timestamp)
                      => is_active_at(call.feature, h, t)
    /\ Applied("create_context")
           => \A h \in RegistryHeights, t \in RegistryTimestamps :
                  (h >= call.height /\ t >= call.timestamp)
                      => \A flag \in ContextFlags :
                             result.value[flag]
                                 => create_context(
                                        FeatureRegistry_for_protocol(call.version),
                                        h, t)[flag]

(* a height-based feature at its activation height, with a later height to *)
(* compare                                                                 *)
C30_Witness ==
    /\ Applied("is_active_at")
    /\ call.feature.activation_method = "HeightBased"
    /\ call.feature.activation_height = Some(100)
    /\ call.height = 100
    /\ call.timestamp = 0
    /\ result = OkR(TRUE)
    /\ \E h \in ActivationHeights : h > call.height

----------------------------------------------------------------------------
(* Concurrent callers.  MaxTasks threads hold the same engine behind an    *)
(* Arc; each issues one validation call.  A call takes two steps, between  *)
(* which the other threads run: it obtains the answer of the consensus     *)
(* collaborator, and it applies what the entry point does with that answer *)
(* and returns.  Every entry point borrows the engine as &self.            *)

validate_block(engine, block, utxos, height, consensus) ==
    IF consensus.variant # "Ok" THEN consensus ELSE OkR(consensus.value)

validate_transaction(engine, tx, consensus) == consensus

Request(api, tx, block, context, consensus) ==
    [api |-> api, tx |-> tx, block |-> block, context |-> context,
     consensus |-> consensus]

ConcurrentRequests ==
    {Request("validate_transaction", Some(SmallTx), None, None, ConsensusValid),
     Request("validate_transaction", Some(LongScriptTx), None, None, ConsensusInvalid),
     Request("validate_block", None, Some(SmallBlock), None, ConsensusFailure),
     Request("validate_transaction_with_protocol", Some(LongScriptTx), None,
             Some(ProtocolValidationContext_new("Regtest", 5).value), ConsensusValid),
     Request("validate_block_with_protocol", None, Some(SmallBlock),
             Some(ProtocolValidationContext_new("BitcoinV1", 5).value), ConsensusValid)}

IdleTask == [pc |-> "idle", request |-> None, answer |-> None, result |-> None]

(* what the entry point named by the request returns, given the answer of  *)
(* the consensus collaborator                                              *)
entry_point(engine, request, answer) ==
    CASE request.api = "validate_transaction" ->
            validate_transaction(engine, Unwrap(request.tx), answer)
      [] request.api = "validate_block" ->
            validate_block(engine, Unwrap(request.block), EmptyUtxoSet, 5, answer)
      [] request.api = "validate_transaction_with_protocol" ->
            validate_transaction_with_protocol(
                engine, Unwrap(request.tx), Unwrap(request.context), answer).result
      [] request.api = "validate_block_with_protocol" ->
            validate_block_with_protocol(
                engine, Unwrap(request.block), EmptyUtxoSet, 5,
                Unwrap(request.context), answer).result

(* The three steps of a thread, as functions of the shared engine and the  *)
(* threads: each gives the engine and the threads after the step.          *)
spawn(engine, threads, t, request) ==
    [engine |-> engine,
     tasks |-> [threads EXCEPT ![t] = [pc |-> "called", request |-> request,
                                       answer |-> None, result |-> None]]]

ask_consensus(engine, threads, t) ==
    [engine |-> engine,
     tasks |-> [threads EXCEPT ![t].pc = "answered",
                               ![t].answer = Some(threads[t].request.consensus)]]

return_result(engine, threads, t) ==
    [engine |-> engine,
     tasks |-> [threads EXCEPT
                   ![t].pc = "done",
                   ![t].result = Some(entry_point(engine, threads[t].request,
                                                  Unwrap(threads[t].answer)))]]

InitConcurrent ==
    /\ peer_state = PeerState_new
    /\ pre_state = PeerState_new
    /\ shared_engine \in BuiltEngines
    /\ call = NoCall(shared_engine)
    /\ result = OkR(RespOk)
    /\ effects = NoEffects
    /\ addr_log = <<>>
    /\ tasks = [t \in 1..MaxTasks |-> IdleTask]
    /\ steps = 0

Interleave(out) ==
    /\ shared_engine' = out.engine
    /\ tasks' = out.tasks
    /\ UNCHANGED <<peer_state, pre_state, call, result, effects, addr_log, steps>>

Spawn ==
    \E t \in DOMAIN tasks :
        /\ tasks[t].pc = "idle"
        /\ \E request \in ConcurrentRequests :
              Interleave(spawn(shared_engine, tasks, t, request))

AskConsensus ==
    \E t \in DOMAIN tasks :
        /\ tasks[t].pc = "called"
        /\ Interleave(ask_consensus(shared_engine, tasks, t))

ReturnResult ==
    \E t \in DOMAIN tasks :
        /\ tasks[t].pc = "answered"
        /\ Interleave(return_result(shared_engine, tasks, t))

NextConcurrent ==
    \/ Spawn
    \/ AskConsensus
    \/ ReturnResult

SpecConcurrent == InitConcurrent /\ [][NextConcurrent]_vars

====
